---- MODULE Spec2Model ----
(***************************************************************************)
(* Model of the DeltaBrush kernel: the Scene (scene graph, selection,     *)
(* cached render-instance list) of src/src/scene.rs and                   *)
(* src/src/scene_graph.rs, and the HalfEdgeMesh of                        *)
(* src/src/half_edge_mesh.rs.                                             *)
(***************************************************************************)
EXTENDS Integers, Sequences, FiniteSets, TLC

VARIABLES
    \* ---- Scene (scene.rs:30-37) ----
    root,                     \* SceneGraphNode
    dirty,                    \* bool
    meshes,                   \* HashMap<MeshId, ModelEntry>
    cached_render_instances,  \* Vec<RenderInstance>
    hierarchy_dirty,          \* bool
    selected_path,            \* Option<Vec<EdgeId>>
    lastOp,                   \* name of the last Scene operation called
    ret,                      \* its return value: <<>> for unit, <<v>> for v
    \* ---- HalfEdgeMesh construction (half_edge_mesh.rs) ----
    mesh,                     \* the flat input Mesh
    hem,                      \* the HalfEdgeMesh built from it
    origin,                   \* which constructor built hem
    \* ---- traversals of the scene graph (scene_graph.rs) ----
    ray,                      \* the Ray3 given to raycast_closest_hit
    \* ---- a model on its own (model.rs, model_wrapper.rs) ----
    wrapper,                  \* a ModelVariant
    \* ---- pure functions (algebra.rs, algorithms.rs) ----
    args                      \* the arguments the function is applied to

sceneVars == <<root, dirty, meshes, cached_render_instances, hierarchy_dirty, selected_path>>
callVars == <<lastOp, ret>>
meshVars == <<mesh, hem, origin>>
rayVars == <<ray>>
wrapperVars == <<wrapper>>
argVars == <<args>>
vars == <<root, dirty, meshes, cached_render_instances, hierarchy_dirty, selected_path,
          lastOp, ret, mesh, hem, origin, ray, wrapper, args>>

(***************************************************************************)
(* Bounds                                                                  *)
(***************************************************************************)
MaxEdges == 2          \* edges in the whole tree of a Scene that is operated on
MaxTreeEdges == 3      \* edges in the whole tree of a Scene that is traversed once
MaxPathLen == 2        \* longest path passed to select_by_edge_path
MaxVerts == 4          \* vertices of a flat input mesh
MaxTris == 2           \* triangles of a flat input mesh
MaxCoord == 1          \* largest coordinate of a Vec3 argument; the smallest is -1
FineShift == 12        \* the fine unit of length of a ray and a triangle is 2^-FineShift

(***************************************************************************)
(* Option<T>: None is the empty tuple, Some(x) the 1-tuple                 *)
(***************************************************************************)
None == <<>>
Some(x) == <<x>>
IsSome(o) == o # <<>>
Unwrap(o) == o[1]

RECURSIVE SeqsUpTo(_, _)
SeqsUpTo(S, n) ==
    IF n = 0 THEN {<<>>}
    ELSE LET shorter == SeqsUpTo(S, n - 1)
         IN shorter \cup {Append(s, x) : s \in {t \in shorter : Len(t) = n - 1}, x \in S}

StartsWith(p, prefix) ==
    /\ Len(prefix) <= Len(p)
    /\ SubSeq(p, 1, Len(prefix)) = prefix

(***************************************************************************)
(* Transform (transform.rs): a 4x4 matrix                                  *)
(***************************************************************************)
identity ==
    << <<1, 0, 0, 0>>,
       <<0, 1, 0, 0>>,
       <<0, 0, 1, 0>>,
       <<0, 0, 0, 1>> >>

\* Transform::from_position([1, 0, 0])
TranslateX ==
    << <<1, 0, 0, 1>>,
       <<0, 1, 0, 0>>,
       <<0, 0, 1, 0>>,
       <<0, 0, 0, 1>> >>

\* Transform::from_rotation(90 degrees about Z)
RotZ90 ==
    << <<0, -1, 0, 0>>,
       <<1, 0, 0, 0>>,
       <<0, 0, 1, 0>>,
       <<0, 0, 0, 1>> >>

MatMul(a, b) ==
    [i \in 1..4 |-> [j \in 1..4 |->
        a[i][1] * b[1][j] + a[i][2] * b[2][j] + a[i][3] * b[3][j] + a[i][4] * b[4][j]]]

\* the product taken with the child on the left
compose_with_parent_ChildLeft(self, parent) == MatMul(self, parent)

\* child.compose_with_parent(parent) = parent * child
compose_with_parent(self, parent) == MatMul(parent, self)

\* the transforms nodes are created with, and the ones update_transform is given
NodeTransforms == {TranslateX}
TransformInputs == {TranslateX, RotZ90}

(***************************************************************************)
(* SceneGraphNode (scene_graph.rs)                                         *)
(***************************************************************************)
\* the MeshIds add_mesh has handed out: one for each model a tree can hold
MeshIds == 1..MaxEdges

NodeChild(n) == [kind |-> "Node", node |-> n]
ModelChild(m) == [kind |-> "Model", mesh_id |-> m]

SceneGraphNode_new == [transform |-> identity, edges |-> <<>>]
with_transform(t) == [transform |-> t, edges |-> <<>>]

\* add_child with the fresh EdgeId the call draws
add_child(node, child, edge_id) ==
    [node EXCEPT !.edges = Append(@, [edge_id |-> edge_id, child |-> child])]

(***************************************************************************)
(* The trees a Scene can hold: built bottom-up with with_transform and     *)
(* add_child, every edge getting a fresh EdgeId (EdgeId::new is a random   *)
(* 128-bit value; here the next unused number).                            *)
(***************************************************************************)
RECURSIVE ForestsWith(_, _)
\* the sequences of children that take n edges in all, the child nodes
\* having transforms of ts; a child node is a shape, a node whose edges are
\* not yet attached, and a model has no mesh_id until its mesh is registered
ForestsWith(ts, n) ==
    IF n = 0 THEN {<<>>}
    ELSE {<<[kind |-> "Model"]>> \o rest : rest \in ForestsWith(ts, n - 1)}
         \cup UNION {{<<NodeChild([transform |-> t, children |-> sub])>> \o rest :
                         t \in ts, sub \in ForestsWith(ts, k),
                         rest \in ForestsWith(ts, n - 1 - k)} :
                     k \in 0..(n - 1)}

Forests(n) == ForestsWith(NodeTransforms, n)

RootShapes ==
    {[transform |-> identity, children |-> cs] : cs \in UNION {Forests(n) : n \in 0..MaxEdges}}

RECURSIVE BuildNode(_, _, _)
RECURSIVE BuildEdges(_, _, _, _, _)
\* returns the built node, the next unused EdgeId and the next unused MeshId:
\* every model is the mesh of its own add_mesh call (scene.rs:75-80)
BuildNode(shape, next, next_mesh) ==
    BuildEdges(with_transform(shape.transform), shape.children, 1, next, next_mesh)

BuildEdges(node, children, i, next, next_mesh) ==
    IF i > Len(children) THEN [node |-> node, next |-> next, next_mesh |-> next_mesh]
    ELSE LET c == children[i]
         IN IF c.kind = "Model"
            THEN BuildEdges(add_child(node, ModelChild(next_mesh), next),
                            children, i + 1, next + 1, next_mesh + 1)
            ELSE LET sub == BuildNode(c.node, next, next_mesh)
                 IN BuildEdges(add_child(node, NodeChild(sub.node), sub.next),
                               children, i + 1, sub.next + 1, sub.next_mesh)

InitialTrees == {BuildNode(s, 1, 1).node : s \in RootShapes}

\* the trees of at most MaxTreeEdges edges, and the MeshIds they hold
TraversalTrees ==
    {BuildNode([transform |-> identity, children |-> cs], 1, 1).node :
        cs \in UNION {Forests(n) : n \in 0..MaxTreeEdges}}
TraversalMeshIds == 1..MaxTreeEdges

\* the same trees with child nodes of every transform
TransformTrees ==
    {BuildNode([transform |-> identity, children |-> cs], 1, 1).node :
        cs \in UNION {ForestsWith(TransformInputs, n) : n \in 0..MaxTreeEdges}}

\* the selections a traversed Scene can hold
SelectionInputs == {None} \cup {Some(p) : p \in SeqsUpTo(0..MaxTreeEdges, MaxPathLen)}

\* EdgeIds callers pass: every id a tree can hold and one id (0) no tree holds
EdgeIdInputs == 0..MaxEdges
PathInputs == SeqsUpTo(EdgeIdInputs, MaxPathLen)

(***************************************************************************)
(* SceneGraphNode::flatten_to_render_instances (scene_graph.rs:99-144)     *)
(***************************************************************************)
\* the selection flag of the selected path and of the paths below it only
IsSelected_NoAncestors(sel, child_path) ==
    IF IsSome(sel) THEN StartsWith(child_path, Unwrap(sel)) ELSE FALSE

\* the selection flag of a mesh reference (scene_graph.rs:126-129)
IsSelected(sel, child_path) ==
    IF IsSome(sel)
    THEN StartsWith(child_path, Unwrap(sel)) \/ StartsWith(Unwrap(sel), child_path)
    ELSE FALSE

\* the counter left as it is
Increment_Skipped(object_id) == object_id

\* *object_id += 1 (scene_graph.rs:138)
Increment(object_id) == object_id + 1

RECURSIVE flatten_to_render_instances(_, _, _, _, _)
RECURSIVE FlattenEdges(_, _, _, _, _, _, _)
\* returns the instances and the value of the shared counter on return
flatten_to_render_instances(self, parent_transform, object_id, current_path, sel) ==
    LET world_transform == compose_with_parent(self.transform, parent_transform)
    IN FlattenEdges(self, 1, world_transform, object_id, current_path, sel, <<>>)

FlattenEdges(self, i, world_transform, object_id, current_path, sel, instances) ==
    IF i > Len(self.edges) THEN [instances |-> instances, object_id |-> object_id]
    ELSE LET edge == self.edges[i]
             child_path == Append(current_path, edge.edge_id)
         IN IF edge.child.kind = "Node"
            THEN LET sub == flatten_to_render_instances(edge.child.node, world_transform,
                                                        object_id, child_path, sel)
                 IN FlattenEdges(self, i + 1, world_transform, sub.object_id, current_path,
                                 sel, instances \o sub.instances)
            ELSE LET is_selected == IsSelected(sel, child_path)
                 IN FlattenEdges(self, i + 1, world_transform, Increment(object_id),
                                 current_path, sel,
                                 Append(instances,
                                        [mesh_id |-> edge.child.mesh_id,
                                         transform |-> world_transform,
                                         id |-> object_id,
                                         is_selected |-> is_selected]))

(***************************************************************************)
(* HalfEdgeMesh (half_edge_mesh.rs). Vec is a sequence; the indices the    *)
(* code stores (VertexIndex, HalfEdgeIndex, FaceIndex) are 0-based, so     *)
(* element k of a Vec v is v[k + 1].                                       *)
(***************************************************************************)
At(v, k) == v[k + 1]

HalfEdge(target, twin, next, prev, face) ==
    [target_vertex_index |-> target, twin_index |-> twin, next_edge |-> next,
     prev_edge |-> prev, face_index |-> face]
Vertex(position, seed) == [position |-> position, seed_half_edge |-> seed]
Face(seed) == [seed_half_edge |-> seed]

\* slice.chunks_exact(3): the complete triples, a remainder is dropped
ChunksExact3(s) == [k \in 1..(Len(s) \div 3) |-> <<s[3 * k - 2], s[3 * k - 1], s[3 * k]>>]

\* the vertices loop of from_mesh (half_edge_mesh.rs:129-137)
InitialVertices(m) ==
    LET coords == ChunksExact3(m.vertex_coords)
    IN [k \in 1..Len(coords) |-> Vertex(coords[k], None)]

\* the three half-edges of triangle idx with a wrong successor of the third
HalfEdgesOfTriangle_OpenLoop(idx, v0, v1, v2) ==
    LET triple_idx == idx * 3
    IN << HalfEdge(v1, None, triple_idx + 1, triple_idx + 2, Some(idx)),
          HalfEdge(v2, None, triple_idx + 2, triple_idx, Some(idx)),
          HalfEdge(v0, None, triple_idx + 1, triple_idx + 1, Some(idx)) >>

\* the three half-edges pushed for triangle idx (half_edge_mesh.rs:151-189)
HalfEdgesOfTriangle(idx, v0, v1, v2) ==
    LET triple_idx == idx * 3
    IN << HalfEdge(v1, None, triple_idx + 1, triple_idx + 2, Some(idx)),
          HalfEdge(v2, None, triple_idx + 2, triple_idx, Some(idx)),
          HalfEdge(v0, None, triple_idx, triple_idx + 1, Some(idx)) >>

\* the seed assignment overwriting a seed already set
SetSeed_LastWins(vertices, vi, he) ==
    [vertices EXCEPT ![vi + 1].seed_half_edge = Some(he)]

\* if vertices[vi].seed_half_edge.is_none() { ... = Some(he) }
\* (half_edge_mesh.rs:162-164, 177-179, 192-194)
SetSeed(vertices, vi, he) ==
    IF At(vertices, vi).seed_half_edge = None
    THEN [vertices EXCEPT ![vi + 1].seed_half_edge = Some(he)]
    ELSE vertices

RECURSIVE TriangleLoop(_, _, _, _, _)
\* the loop over the triangles (half_edge_mesh.rs:142-203), idx 0-based
TriangleLoop(triangles, idx, vertices, half_edges, faces) ==
    IF idx >= Len(triangles)
    THEN [vertices |-> vertices, half_edges |-> half_edges, faces |-> faces]
    ELSE LET t == At(triangles, idx)
             triple_idx == idx * 3
             vs1 == SetSeed(vertices, t[1], triple_idx)
             vs2 == SetSeed(vs1, t[2], triple_idx + 1)
             vs3 == SetSeed(vs2, t[3], triple_idx + 2)
         IN TriangleLoop(triangles, idx + 1, vs3,
                         half_edges \o HalfEdgesOfTriangle(idx, t[1], t[2], t[3]),
                         Append(faces, Face(triple_idx)))

\* HashMap: a function on the keys inserted; insert overwrites
MapInsert(m, k, v) == [x \in DOMAIN m \cup {k} |-> IF x = k THEN v ELSE m[x]]
MapGet(m, k) == IF k \in DOMAIN m THEN Some(m[k]) ELSE None

\* source of a half-edge: the target of its predecessor
\* (half_edge_mesh.rs:212, 221)
SourceOf(half_edges, he) == At(half_edges, he.prev_edge).target_vertex_index

RECURSIVE EdgeMapLoop(_, _, _)
\* the loop filling edge_map (half_edge_mesh.rs:211-216)
EdgeMapLoop(half_edges, i, edge_map) ==
    IF i >= Len(half_edges) THEN edge_map
    ELSE LET he == At(half_edges, i)
         IN EdgeMapLoop(half_edges, i + 1,
                        MapInsert(edge_map,
                                  <<SourceOf(half_edges, he), he.target_vertex_index>>, i))

\* the twin looked up by the target alone
TwinOf_AnyIntoSource(half_edges, edge_map, he) ==
    LET source == SourceOf(half_edges, he)
        keys == {k \in DOMAIN edge_map : k[2] = source}
    IN IF keys = {} THEN None
       ELSE Some(edge_map[CHOOSE k \in keys : \A l \in keys : k[1] <= l[1]])

\* the twin of a half-edge: the entry of the reversed pair
\* (half_edge_mesh.rs:219-226)
TwinOf(half_edges, edge_map, he) ==
    MapGet(edge_map, <<he.target_vertex_index, SourceOf(half_edges, he)>>)

\* HalfEdgeMesh::from_mesh (half_edge_mesh.rs:122-237)
from_mesh(m) ==
    LET built == TriangleLoop(ChunksExact3(m.face_indices), 0, InitialVertices(m), <<>>, <<>>)
        edge_map == EdgeMapLoop(built.half_edges, 0, <<>>)
        twins == [k \in 1..Len(built.half_edges) |->
                     TwinOf(built.half_edges, edge_map, built.half_edges[k])]
    IN [vertices |-> built.vertices,
        half_edges |-> [k \in 1..Len(built.half_edges) |->
                           [built.half_edges[k] EXCEPT !.twin_index = twins[k]]],
        faces |-> built.faces]

\* HalfEdgeMesh::create_cube(2.0) (half_edge_mesh.rs:50-118)
create_cube ==
    [vertices |->
        << Vertex(<<-1, -1, -1>>, Some(0)),
           Vertex(<< 1, -1, -1>>, Some(4)),
           Vertex(<< 1,  1, -1>>, Some(8)),
           Vertex(<<-1,  1, -1>>, Some(12)),
           Vertex(<<-1, -1,  1>>, Some(16)),
           Vertex(<< 1, -1,  1>>, Some(20)),
           Vertex(<< 1,  1,  1>>, Some(5)),
           Vertex(<<-1,  1,  1>>, Some(9)) >>,
     faces |-> << Face(0), Face(4), Face(8), Face(12), Face(16), Face(20) >>,
     half_edges |->
        << HalfEdge(1, Some(7), 1, 3, Some(0)),
           HalfEdge(2, Some(11), 2, 0, Some(0)),
           HalfEdge(3, Some(15), 3, 1, Some(0)),
           HalfEdge(0, Some(19), 0, 2, Some(0)),

           HalfEdge(5, Some(17), 5, 7, Some(1)),
           HalfEdge(6, Some(21), 6, 4, Some(1)),
           HalfEdge(2, Some(9), 7, 5, Some(1)),
           HalfEdge(1, Some(0), 4, 6, Some(1)),

           HalfEdge(4, Some(18), 9, 11, Some(2)),
           HalfEdge(7, Some(22), 10, 8, Some(2)),
           HalfEdge(6, Some(6), 11, 9, Some(2)),
           HalfEdge(5, Some(1), 8, 10, Some(2)),

           HalfEdge(0, Some(16), 13, 15, Some(3)),
           HalfEdge(3, Some(23), 14, 12, Some(3)),
           HalfEdge(7, Some(10), 15, 13, Some(3)),
           HalfEdge(4, Some(2), 12, 14, Some(3)),

           HalfEdge(4, Some(12), 17, 19, Some(4)),
           HalfEdge(5, Some(4), 18, 16, Some(4)),
           HalfEdge(1, Some(8), 19, 17, Some(4)),
           HalfEdge(0, Some(3), 16, 18, Some(4)),

           HalfEdge(2, Some(14), 21, 23, Some(5)),
           HalfEdge(6, Some(5), 22, 20, Some(5)),
           HalfEdge(7, Some(9), 23, 21, Some(5)),
           HalfEdge(3, Some(13), 20, 22, Some(5)) >>]

\* the walk going on from the twin itself
NextOutgoing_TwinItself(h, twin) == twin

\* current_he = self[twin].next_edge (half_edge_mesh.rs:275)
NextOutgoing(h, twin) == At(h.half_edges, twin).next_edge

RECURSIVE OutgoingLoop(_, _, _, _)
\* the loop of vertex_outgoing_half_edges (half_edge_mesh.rs:270-283). The
\* step current_he -> next(twin(current_he)) is a function on the half-edges,
\* so a walk that has pushed more half-edges than the mesh has is in a cycle
\* that does not hold start_he and never leaves it: returns is FALSE and
\* outgoing is the list at that point.
OutgoingLoop(h, start_he, current_he, outgoing) ==
    LET pushed == Append(outgoing, current_he)
        he == At(h.half_edges, current_he)
    IN IF Len(pushed) > Len(h.half_edges)
       THEN [returns |-> FALSE, outgoing |-> pushed]
       ELSE IF IsSome(he.twin_index)
            THEN LET next_he == NextOutgoing(h, Unwrap(he.twin_index))
                 IN IF next_he = start_he
                    THEN [returns |-> TRUE, outgoing |-> pushed]
                    ELSE OutgoingLoop(h, start_he, next_he, pushed)
            ELSE [returns |-> TRUE, outgoing |-> pushed]

\* HalfEdgeMesh::vertex_outgoing_half_edges (half_edge_mesh.rs:264-287)
vertex_outgoing_half_edges(h, vertex_idx) ==
    LET seed == At(h.vertices, vertex_idx).seed_half_edge
    IN IF IsSome(seed) THEN OutgoingLoop(h, Unwrap(seed), Unwrap(seed), <<>>)
       ELSE [returns |-> TRUE, outgoing |-> <<>>]

RECURSIVE FlatMap(_, _, _)
\* iter().flat_map(f).collect() over the elements i.. of a Vec
FlatMap(f(_), v, i) == IF i > Len(v) THEN <<>> ELSE f(v[i]) \o FlatMap(f, v, i + 1)

\* the three pushes of the fan loop (half_edge_mesh.rs:337-340)
FanTriangle(source_vertex_index, next_vertex_index, prev_vertex_index) ==
    <<source_vertex_index, next_vertex_index, prev_vertex_index>>

RECURSIVE FanLoop(_, _, _, _, _, _)
\* the loop over a face's half-edges (half_edge_mesh.rs:325-344)
FanLoop(h, face, source_vertex_index, current_half_edge_index, prev_vertex_index, indices) ==
    LET current == At(h.half_edges, current_half_edge_index).next_edge
    IN IF current = face.seed_half_edge THEN indices
       ELSE LET next_vertex_index == At(h.half_edges, current).target_vertex_index
            IN FanLoop(h, face, source_vertex_index, current, next_vertex_index,
                       indices \o FanTriangle(source_vertex_index, next_vertex_index,
                                              prev_vertex_index))

\* the fan of a face with the first prev_vertex read from the seed half-edge
FaceFan_PrevFromSeed(h, face) ==
    LET pointing_half_edge == At(h.half_edges, face.seed_half_edge)
        source_vertex_index == pointing_half_edge.target_vertex_index
        current_half_edge_index == pointing_half_edge.next_edge
        prev_vertex_index == pointing_half_edge.target_vertex_index
    IN FanLoop(h, face, source_vertex_index, current_half_edge_index, prev_vertex_index, <<>>)

\* the indices to_mesh emits for one face (half_edge_mesh.rs:307-347)
FaceFan(h, face) ==
    LET pointing_half_edge == At(h.half_edges, face.seed_half_edge)
        source_vertex_index == pointing_half_edge.target_vertex_index
        current_half_edge_index == pointing_half_edge.next_edge
        prev_vertex_index == At(h.half_edges, current_half_edge_index).target_vertex_index
    IN FanLoop(h, face, source_vertex_index, current_half_edge_index, prev_vertex_index, <<>>)

\* ToMesh for HalfEdgeMesh::to_mesh (half_edge_mesh.rs:294-360)
to_mesh(h) ==
    LET PositionOf(vertex) == vertex.position
        FanOf(face) == FaceFan(h, face)
    IN [vertex_coords |-> FlatMap(PositionOf, h.vertices, 1),
        face_indices |-> FlatMap(FanOf, h.faces, 1)]

\* Mesh::create_cube(2.0) (mesh.rs:49-84)
Mesh_create_cube ==
    [vertex_coords |-> <<-1, -1, -1>> \o << 1, -1, -1>> \o << 1,  1, -1>> \o <<-1,  1, -1>>
                       \o <<-1, -1,  1>> \o << 1, -1,  1>> \o << 1,  1,  1>> \o <<-1,  1,  1>>,
     face_indices |-> <<0, 2, 1>> \o <<0, 3, 2>> \o <<5, 7, 4>> \o <<5, 6, 7>>
                      \o <<3, 6, 2>> \o <<3, 7, 6>> \o <<4, 1, 5>> \o <<4, 0, 1>>
                      \o <<1, 6, 5>> \o <<1, 2, 6>> \o <<4, 3, 0>> \o <<4, 7, 3>>]

(***************************************************************************)
(* Model registry: ModelEntry / ModelVariant / ModelWrapper                *)
(***************************************************************************)
\* Mesh::new (mesh.rs:12-18)
EmptyMesh == [vertex_coords |-> <<>>, face_indices |-> <<>>]
EmptyHem == [vertices |-> <<>>, half_edges |-> <<>>, faces |-> <<>>]

\* new with the render mesh left empty
ModelWrapper_new_EmptyCache(model) ==
    [variant |-> "HalfEdgeMesh", model |-> model, render_mesh |-> EmptyMesh,
     dirty |-> FALSE]

\* ModelWrapper::new (model_wrapper.rs:11-17) as a ModelVariant::HalfEdgeMesh
ModelWrapper_new(model) ==
    [variant |-> "HalfEdgeMesh", model |-> model, render_mesh |-> to_mesh(model),
     dirty |-> FALSE]

\* ModelVariant::Mesh (model.rs:9-13)
ModelVariant_Mesh(m) == [variant |-> "Mesh", model |-> m, render_mesh |-> m, dirty |-> FALSE]

\* ModelWrapper::get_mesh (model_wrapper.rs:19-21)
ModelWrapper_get_mesh(self) == self.render_mesh

\* ModelVariant::get_mesh (model.rs:22-27)
get_mesh(entry) ==
    IF entry.variant = "HalfEdgeMesh" THEN ModelWrapper_get_mesh(entry) ELSE entry.model

\* ModelWrapper::sync_render_mesh (model_wrapper.rs:23-29)
ModelWrapper_sync_render_mesh(self) ==
    IF self.dirty
    THEN [self EXCEPT !.render_mesh = to_mesh(self.model), !.dirty = FALSE]
    ELSE self

\* ModelVariant::sync_render_mesh (model.rs:29-36)
ModelVariant_sync_render_mesh(entry) ==
    IF entry.variant = "HalfEdgeMesh" THEN ModelWrapper_sync_render_mesh(entry) ELSE entry

RECURSIVE MeshRefs(_)
RECURSIVE MeshRefsFrom(_, _)
\* the mesh ids referenced by the subtree
MeshRefs(node) == MeshRefsFrom(node, 1)
MeshRefsFrom(node, i) ==
    IF i > Len(node.edges) THEN {}
    ELSE (IF node.edges[i].child.kind = "Node" THEN MeshRefs(node.edges[i].child.node)
          ELSE {node.edges[i].child.mesh_id})
         \cup MeshRefsFrom(node, i + 1)

\* SceneGraphNode::sync_render_mesh (scene_graph.rs:82-95)
sync_render_mesh(node, ms) ==
    [m \in DOMAIN ms |->
        IF m \in MeshRefs(node) THEN ModelVariant_sync_render_mesh(ms[m]) ELSE ms[m]]

\* the registry after add_cube (mesh 1) and add_raw_mesh (the others)
InitialMeshes ==
    [m \in MeshIds |->
        IF m = 1
        THEN [variant |-> "HalfEdgeMesh", model |-> "cube", render_mesh |-> "cube", dirty |-> FALSE]
        ELSE [variant |-> "Mesh", model |-> "raw", render_mesh |-> "raw", dirty |-> FALSE]]

(***************************************************************************)
(* Scene (scene.rs)                                                        *)
(***************************************************************************)
\* current.edges.iter().find(|e| e.edge_id == edge_id): index of the first
\* edge with that id, 0 when there is none
FindEdge(node, edge_id) ==
    LET hits == {k \in 1..Len(node.edges) : node.edges[k].edge_id = edge_id}
    IN IF hits = {} THEN 0 ELSE CHOOSE k \in hits : \A l \in hits : k <= l

RECURSIVE EdgePathLoop_AcceptPastMesh(_, _, _)
\* EdgePathLoop accepting a mesh-reference edge at any position
EdgePathLoop_AcceptPastMesh(current, path, i) ==
    IF i >= Len(path) THEN TRUE
    ELSE LET k == FindEdge(current, path[i + 1])
         IN IF k = 0 THEN FALSE
            ELSE IF current.edges[k].child.kind = "Node"
                 THEN EdgePathLoop_AcceptPastMesh(current.edges[k].child.node, path, i + 1)
                 ELSE TRUE

RECURSIVE EdgePathLoop(_, _, _)
\* the for loop of edge_path_is_valid (scene.rs:235-251), i is 0-based
EdgePathLoop(current, path, i) ==
    IF i >= Len(path) THEN TRUE
    ELSE LET k == FindEdge(current, path[i + 1])
         IN IF k = 0 THEN FALSE
            ELSE IF current.edges[k].child.kind = "Node"
                 THEN EdgePathLoop(current.edges[k].child.node, path, i + 1)
                 ELSE i = Len(path) - 1

\* edge_path_is_valid without the test for the empty path
edge_path_is_valid_NoEmptyTest(r, path) == EdgePathLoop(r, path, 0)

\* Scene::edge_path_is_valid (scene.rs:229-252)
edge_path_is_valid(r, path) ==
    IF path = <<>> THEN FALSE ELSE EdgePathLoop(r, path, 0)

\* Vec::remove(id), id 0-based
VecRemove(s, id) == SubSeq(s, 1, id) \o SubSeq(s, id + 2, Len(s))

(***************************************************************************)
(* The methods of Scene as functions of the Scene value `self` (a record   *)
(* of the fields of scene.rs:30-37) and the arguments: each returns the    *)
(* Scene after the call and the value returned, <<>> for unit.             *)
(***************************************************************************)
Returning(self, r) == [self |-> self, ret |-> r]

\* the rebuild without the test of hierarchy_dirty
rebuild_cache_Unguarded(self) ==
    [self EXCEPT
        !.meshes = sync_render_mesh(self.root, self.meshes),
        !.cached_render_instances =
            flatten_to_render_instances(self.root, identity, 0, <<>>,
                                        self.selected_path).instances,
        !.hierarchy_dirty = FALSE,
        !.dirty = TRUE]

\* Scene::rebuild_cache (scene.rs:52-72)
rebuild_cache(self) ==
    IF ~self.hierarchy_dirty THEN self
    ELSE [self EXCEPT
            !.meshes = sync_render_mesh(self.root, self.meshes),
            !.cached_render_instances =
                flatten_to_render_instances(self.root, identity, 0, <<>>,
                                            self.selected_path).instances,
            !.hierarchy_dirty = FALSE,
            !.dirty = TRUE]

\* Scene::get_render_instances (scene.rs:184-187): returns a reference to
\* the cached list of the Scene after the call
get_render_instances(self) ==
    Returning(rebuild_cache(self), Some("&cached_render_instances"))

\* remove_object marking the hierarchy dirty whether or not it removed
remove_object_DirtyOnFailure(self, id) ==
    IF id < Len(self.root.edges)
    THEN Returning([self EXCEPT !.root.edges = VecRemove(@, id),
                                !.hierarchy_dirty = TRUE],
                   Some(TRUE))
    ELSE Returning([self EXCEPT !.hierarchy_dirty = TRUE], Some(FALSE))

\* Scene::remove_object (scene.rs:148-156)
remove_object(self, id) ==
    IF id < Len(self.root.edges)
    THEN Returning([self EXCEPT !.root.edges = VecRemove(@, id),
                                !.hierarchy_dirty = TRUE],
                   Some(TRUE))
    ELSE Returning(self, Some(FALSE))

\* Scene::update_transform (scene.rs:158-167)
update_transform(self, id, transform) ==
    IF id < Len(self.root.edges) /\ self.root.edges[id + 1].child.kind = "Node"
    THEN Returning([self EXCEPT !.root.edges[id + 1].child.node.transform = transform,
                                !.dirty = TRUE],
                   Some(TRUE))
    ELSE Returning(self, Some(FALSE))

\* Scene::is_dirty (scene.rs:177-179)
is_dirty(self) == Returning(self, Some(self.dirty \/ self.hierarchy_dirty))

\* Scene::clear_dirty (scene.rs:180)
clear_dirty(self) == Returning([self EXCEPT !.dirty = FALSE], <<>>)

\* Scene::clear (scene.rs:189-195)
clear(self) ==
    Returning([self EXCEPT !.root = SceneGraphNode_new,
                           !.meshes = <<>>,
                           !.cached_render_instances = <<>>,
                           !.hierarchy_dirty = TRUE,
                           !.selected_path = None],
              <<>>)

\* Scene::select_by_edge_path (scene.rs:210-218)
select_by_edge_path(self, path) ==
    IF edge_path_is_valid(self.root, path)
    THEN Returning([self EXCEPT !.selected_path = Some(path),
                                !.hierarchy_dirty = TRUE],
                   Some(TRUE))
    ELSE Returning(self, Some(FALSE))

\* Scene::deselect (scene.rs:221-226)
deselect(self) ==
    IF IsSome(self.selected_path)
    THEN Returning([self EXCEPT !.selected_path = None, !.hierarchy_dirty = TRUE], <<>>)
    ELSE Returning(self, <<>>)

\* select_parent truncating every non-empty path
select_parent_TruncatesAny(self) ==
    IF IsSome(self.selected_path) /\ Len(Unwrap(self.selected_path)) > 0
    THEN LET path == Unwrap(self.selected_path)
         IN Returning([self EXCEPT !.selected_path = Some(SubSeq(path, 1, Len(path) - 1)),
                                   !.hierarchy_dirty = TRUE],
                      Some(TRUE))
    ELSE Returning(self, Some(FALSE))

\* Scene::select_parent (scene.rs:260-270)
select_parent(self) ==
    IF IsSome(self.selected_path) /\ Len(Unwrap(self.selected_path)) > 1
    THEN LET path == Unwrap(self.selected_path)
         IN Returning([self EXCEPT !.selected_path = Some(SubSeq(path, 1, Len(path) - 1)),
                                   !.hierarchy_dirty = TRUE],
                      Some(TRUE))
    ELSE Returning(self, Some(FALSE))

(***************************************************************************)
(* SceneAPI::select_by_edge_path (scene.rs:464-477): the path arrives as   *)
(* strings. A string is either the text of a UUID, in one of the forms     *)
(* Uuid::parse_str accepts, or text that is no UUID.                       *)
(***************************************************************************)
UuidText(form, id) == [form |-> form, id |-> id]
NotAUuid == [form |-> "garbage", id |-> 0]

\* EdgeId::to_string (scene_graph.rs:23-25): the hyphenated form
EdgeId_to_string(edge_id) == UuidText("hyphenated", edge_id)

\* EdgeId::from_string (scene_graph.rs:28-30): Ok(id) as <<id>>, Err as <<>>
EdgeId_from_string(s) ==
    IF s.form \in {"hyphenated", "simple"} THEN Some(s.id) ELSE None

StringInputs == {EdgeId_to_string(1), EdgeId_to_string(2), UuidText("simple", 1), NotAUuid}
StringPathInputs == SeqsUpTo(StringInputs, MaxPathLen)

RECURSIVE ParsePath(_, _, _)
\* the parsing loop (scene.rs:466-475): Some(path), or None at the first
\* string that does not parse
ParsePath(path_strings, i, path) ==
    IF i > Len(path_strings) THEN Some(path)
    ELSE LET r == EdgeId_from_string(path_strings[i])
         IN IF IsSome(r) THEN ParsePath(path_strings, i + 1, Append(path, Unwrap(r)))
            ELSE None

SceneAPI_select_by_edge_path(self, path_strings) ==
    LET parsed == ParsePath(path_strings, 1, <<>>)
    IN IF IsSome(parsed) THEN select_by_edge_path(self, Unwrap(parsed))
       ELSE Returning(self, Some(FALSE))

(***************************************************************************)
(* Specification of the Scene: one action per method                       *)
(***************************************************************************)
\* no ray is held
NoRay == <<>>

\* no model held on its own
NoWrapper == <<>>

\* no arguments held
NoArgs == <<>>

\* the Scene value held in the variables
Self ==
    [root |-> root, dirty |-> dirty, meshes |-> meshes,
     cached_render_instances |-> cached_render_instances,
     hierarchy_dirty |-> hierarchy_dirty, selected_path |-> selected_path]

\* a call of method op whose outcome is r
Call(op, r) ==
    /\ root' = r.self.root
    /\ dirty' = r.self.dirty
    /\ meshes' = r.self.meshes
    /\ cached_render_instances' = r.self.cached_render_instances
    /\ hierarchy_dirty' = r.self.hierarchy_dirty
    /\ selected_path' = r.self.selected_path
    /\ lastOp' = op
    /\ ret' = r.ret
    /\ UNCHANGED <<meshVars, rayVars, wrapperVars, argVars>>

\* Scene::new (scene.rs:40-49), the registry filled and the tree built
Init ==
    /\ root \in InitialTrees
    /\ dirty = FALSE
    /\ meshes = InitialMeshes
    /\ cached_render_instances = <<>>
    /\ hierarchy_dirty = TRUE
    /\ selected_path = None
    /\ lastOp = "new"
    /\ ret = <<>>
    /\ mesh = EmptyMesh
    /\ hem = EmptyHem
    /\ origin = "none"
    /\ ray = NoRay
    /\ wrapper = NoWrapper
    /\ args = NoArgs

GetRenderInstances == Call("get_render_instances", get_render_instances(Self))
RemoveObject == \E id \in 0..MaxEdges : Call("remove_object", remove_object(Self, id))
UpdateTransform ==
    \E id \in 0..MaxEdges, t \in TransformInputs :
        Call("update_transform", update_transform(Self, id, t))
IsDirty == Call("is_dirty", is_dirty(Self))
ClearDirty == Call("clear_dirty", clear_dirty(Self))
Clear == Call("clear", clear(Self))
SelectByEdgePath ==
    \E path \in PathInputs : Call("select_by_edge_path", select_by_edge_path(Self, path))
ApiSelectByEdgePath ==
    \E path_strings \in StringPathInputs :
        Call("SceneAPI_select_by_edge_path", SceneAPI_select_by_edge_path(Self, path_strings))
Deselect == Call("deselect", deselect(Self))
SelectParent == Call("select_parent", select_parent(Self))

Next ==
    \/ GetRenderInstances
    \/ RemoveObject
    \/ UpdateTransform
    \/ IsDirty
    \/ ClearDirty
    \/ Clear
    \/ SelectByEdgePath
    \/ ApiSelectByEdgePath
    \/ Deselect
    \/ SelectParent

Spec == Init /\ [][Next]_vars

(***************************************************************************)
(* Properties of the Scene                                                 *)
(***************************************************************************)
\* what flatten_to_render_instances computes from a Scene, from the identity
\* transform and counter 0
FlattenOf(self) ==
    flatten_to_render_instances(self.root, identity, 0, <<>>, self.selected_path).instances

\* C1: the list get_render_instances returns is the list that
\* flatten_to_render_instances computes at that moment from the current
\* tree, transforms and selection.
C1_CacheCoherence ==
    lastOp = "get_render_instances" => cached_render_instances = FlattenOf(Self)

\* C2: every successful state-changing operation leaves hierarchy_dirty set:
\* remove_object, update_transform, select_by_edge_path and select_parent
\* returning true, deselect when a selection existed, and clear.
C2_ChangeSetsHierarchyDirty ==
    /\ (/\ lastOp \in {"remove_object", "update_transform", "select_by_edge_path",
                        "SceneAPI_select_by_edge_path", "select_parent"}
        /\ ret = Some(TRUE))
       => hierarchy_dirty
    /\ lastOp = "clear" => hierarchy_dirty
    /\ IsSome(selected_path) => deselect(Self).self.hierarchy_dirty

RECURSIVE ResolveNode(_, _)
\* the node a path leads to when each of its elements names a child-node
\* edge of the node its predecessors lead to; None otherwise
ResolveNode(r, p) ==
    IF p = <<>> THEN Some(r)
    ELSE LET parent == ResolveNode(r, SubSeq(p, 1, Len(p) - 1))
         IN IF ~IsSome(parent) THEN None
            ELSE LET es == Unwrap(parent).edges
                     ks == {k \in 1..Len(es) : es[k].edge_id = p[Len(p)]
                                               /\ es[k].child.kind = "Node"}
                 IN IF ks = {} THEN None ELSE Some(es[CHOOSE k \in ks : TRUE].child.node)

\* a path is valid in the tree: it is not empty, all but its last element
\* lead through child-node edges, and its last element is an edge (to a
\* node or to a mesh) of the node reached
PathValidInTree(r, p) ==
    /\ p # <<>>
    /\ LET parent == ResolveNode(r, SubSeq(p, 1, Len(p) - 1))
       IN /\ IsSome(parent)
          /\ \E k \in 1..Len(Unwrap(parent).edges) :
                 Unwrap(parent).edges[k].edge_id = p[Len(p)]

\* the strings of a path that all parse, as EdgeIds
ParsedIds(path_strings) ==
    [i \in 1..Len(path_strings) |-> Unwrap(EdgeId_from_string(path_strings[i]))]

\* C3: select_by_edge_path with a path that is not valid in the tree returns
\* false and leaves the whole Scene unchanged; so does the SceneAPI wrapper
\* when a string of the path does not parse as an EdgeId.
C3_InvalidSelectChangesNothing ==
    /\ \A path \in PathInputs :
           ~PathValidInTree(root, path)
           => select_by_edge_path(Self, path) = Returning(Self, Some(FALSE))
    /\ \A path_strings \in StringPathInputs :
           (\/ \E i \in 1..Len(path_strings) : ~IsSome(EdgeId_from_string(path_strings[i]))
            \/ ~PathValidInTree(root, ParsedIds(path_strings)))
           => SceneAPI_select_by_edge_path(Self, path_strings) = Returning(Self, Some(FALSE))

\* a select has failed on a Scene that had a selection and a rebuilt cache
C3_Witness ==
    /\ lastOp \in {"select_by_edge_path", "SceneAPI_select_by_edge_path"}
    /\ ret = Some(FALSE)
    /\ IsSome(selected_path)
    /\ ~hierarchy_dirty
    /\ cached_render_instances # <<>>

\* C4: select_by_edge_path returns true exactly when the path is valid in
\* the tree; on true the selection is the given path and hierarchy_dirty is set.
C4_SelectAcceptsExactlyValidPaths ==
    \A path \in PathInputs :
        LET r == select_by_edge_path(Self, path)
        IN /\ r.ret = Some(PathValidInTree(root, path))
           /\ r.ret = Some(TRUE)
              => (r.self.selected_path = Some(path) /\ r.self.hierarchy_dirty)

\* a path that ends at a child-node edge was accepted
C4_Witness ==
    /\ lastOp = "select_by_edge_path"
    /\ ret = Some(TRUE)
    /\ hierarchy_dirty
    /\ IsSome(selected_path)
    /\ IsSome(ResolveNode(root, Unwrap(selected_path)))

\* C5: select_parent drops the last element of a selected path of more than
\* one element, sets hierarchy_dirty and returns true; on a 1-element path or
\* without selection it returns false and leaves selection and flags alone;
\* it never clears the selection.
C5_SelectParent ==
    LET r == select_parent(Self)
    IN /\ IF IsSome(selected_path) /\ Len(Unwrap(selected_path)) > 1
          THEN /\ r.self.selected_path =
                      Some(SubSeq(Unwrap(selected_path), 1, Len(Unwrap(selected_path)) - 1))
               /\ r.self.hierarchy_dirty
               /\ r.ret = Some(TRUE)
          ELSE /\ r.ret = Some(FALSE)
               /\ r.self.selected_path = selected_path
               /\ r.self.hierarchy_dirty = hierarchy_dirty
               /\ r.self.dirty = dirty
       /\ IsSome(selected_path)
          => (IsSome(r.self.selected_path) /\ Len(Unwrap(r.self.selected_path)) >= 1)

\* select_parent has shortened a 2-element path to its 1-element prefix
C5_Witness ==
    /\ lastOp = "select_parent"
    /\ ret = Some(TRUE)
    /\ ~dirty
    /\ IsSome(selected_path)
    /\ Len(Unwrap(selected_path)) = 1

(***************************************************************************)
(* Specification of the HalfEdgeMesh: a flat Mesh with in-range indices    *)
(* and lengths that are multiples of 3 is drawn, a HalfEdgeMesh is built   *)
(* from it or as the cube fixture, and is walked and flattened.            *)
(***************************************************************************)
\* the coordinates of vertex v of an input mesh
CoordsOf(v) == <<v, 2 * v, 0 - v>>

RECURSIVE FlatCoords(_)
FlatCoords(n) == IF n = 0 THEN <<>> ELSE FlatCoords(n - 1) \o CoordsOf(n - 1)

RECURSIVE IndexSeqs(_)
\* the index buffers of n indices over MaxVerts vertices. from_mesh uses a
\* vertex index as a position in the vertex list and as a map key only, so
\* renaming the vertices of a mesh renames its result: the buffers drawn are
\* the ones whose vertices first occur in increasing order, one for each
\* class of buffers equal up to renaming.
IndexSeqs(n) ==
    IF n = 0 THEN {<<>>}
    ELSE UNION {LET fresh == Cardinality({s[k] : k \in 1..Len(s)})
                    top == IF fresh < MaxVerts THEN fresh ELSE MaxVerts - 1
                IN {Append(s, v) : v \in 0..top} : s \in IndexSeqs(n - 1)}

\* the index buffers of exactly n triangles
FaceIndexSeqs(n) == IndexSeqs(3 * n)

\* the bounded meshes and the cube of Mesh::create_cube
MeshInputs ==
    {[vertex_coords |-> FlatCoords(MaxVerts), face_indices |-> f] :
        f \in UNION {FaceIndexSeqs(n) : n \in 0..MaxTris}}
    \cup {Mesh_create_cube}

InitMesh ==
    /\ mesh \in MeshInputs
    /\ hem = EmptyHem
    /\ origin = "none"
    /\ ray = NoRay
    /\ wrapper = NoWrapper
    /\ args = NoArgs
    /\ root = SceneGraphNode_new
    /\ dirty = FALSE
    /\ meshes = <<>>
    /\ cached_render_instances = <<>>
    /\ hierarchy_dirty = TRUE
    /\ selected_path = None
    /\ lastOp = "new"
    /\ ret = <<>>

FromMesh ==
    /\ hem' = from_mesh(mesh)
    /\ origin' = "from_mesh"
    /\ lastOp' = "from_mesh"
    /\ ret' = <<>>
    /\ UNCHANGED <<mesh, sceneVars, rayVars, wrapperVars, argVars>>

\* the cube is built from no flat mesh
CreateCube ==
    /\ hem' = create_cube
    /\ origin' = "create_cube"
    /\ mesh' = EmptyMesh
    /\ lastOp' = "create_cube"
    /\ ret' = <<>>
    /\ UNCHANGED <<sceneVars, rayVars, wrapperVars, argVars>>

VertexOutgoingHalfEdges ==
    \E vertex_idx \in 0..(Len(hem.vertices) - 1) :
        /\ lastOp' = "vertex_outgoing_half_edges"
        /\ ret' = [vertex_idx |-> vertex_idx, walk |-> vertex_outgoing_half_edges(hem, vertex_idx)]
        /\ UNCHANGED <<meshVars, sceneVars, rayVars, wrapperVars, argVars>>

ToMesh ==
    /\ lastOp' = "to_mesh"
    /\ ret' = to_mesh(hem)
    /\ UNCHANGED <<meshVars, sceneVars, rayVars, wrapperVars, argVars>>

NextMesh ==
    \/ FromMesh
    \/ CreateCube
    \/ VertexOutgoingHalfEdges
    \/ ToMesh

SpecMesh == InitMesh /\ [][NextMesh]_vars

(***************************************************************************)
(* Properties of the HalfEdgeMesh                                          *)
(***************************************************************************)
HalfEdgeIndices(h) == 0..(Len(h.half_edges) - 1)

\* for every half-edge i with twin j, the twin of j is i
TwinSymmetric(h) ==
    \A i \in HalfEdgeIndices(h) :
        IsSome(At(h.half_edges, i).twin_index)
        => At(h.half_edges, Unwrap(At(h.half_edges, i).twin_index)).twin_index = Some(i)

\* the directed edges (source, target) of the triangles of a flat mesh, one
\* entry per triangle side
DirectedEdges(m) ==
    LET ts == ChunksExact3(m.face_indices)
    IN {<<k, 1, ts[k][1], ts[k][2]>> : k \in 1..Len(ts)}
       \cup {<<k, 2, ts[k][2], ts[k][3]>> : k \in 1..Len(ts)}
       \cup {<<k, 3, ts[k][3], ts[k][1]>> : k \in 1..Len(ts)}

\* no directed edge is produced by more than one triangle
NoEdgeInTwoTriangles(m) ==
    \A e, f \in DirectedEdges(m) : (e[3] = f[3] /\ e[4] = f[4]) => e[1] = f[1]

\* no directed edge is produced more than once, by whichever triangles
NoEdgeTwice(m) ==
    \A e, f \in DirectedEdges(m) : (e[3] = f[3] /\ e[4] = f[4]) => e = f

\* C6 as stated: twin symmetry of from_mesh whenever no directed edge is
\* produced by more than one triangle.
C6_TwinSymmetryManifold ==
    (origin = "from_mesh" /\ NoEdgeInTwoTriangles(mesh)) => TwinSymmetric(hem)

\* C6 amended: twin symmetry of from_mesh whenever no directed edge is
\* produced more than once, be it by two triangles or by one triangle
\* (a, a, a) that repeats a vertex three times.
C6_TwinSymmetryNoEdgeTwice ==
    (origin = "from_mesh" /\ NoEdgeTwice(mesh)) => TwinSymmetric(hem)

\* two triangles glued along every edge: each half-edge has a twin
C6_Witness ==
    /\ origin = "from_mesh"
    /\ NoEdgeTwice(mesh)
    /\ Len(hem.half_edges) = 6
    /\ \A i \in HalfEdgeIndices(hem) :
           /\ IsSome(At(hem.half_edges, i).twin_index)
           /\ At(hem.half_edges, i).twin_index # Some(i)

\* C7: the cube of create_cube satisfies twin symmetry.
C7_CubeTwinSymmetry ==
    origin = "create_cube" => TwinSymmetric(hem)

RECURSIVE NextTimes(_, _, _)
\* the half-edge reached from he by n steps of next_edge
NextTimes(h, he, n) ==
    IF n = 0 THEN he ELSE NextTimes(h, At(h.half_edges, he).next_edge, n - 1)

\* the vertex count of the faces a constructor builds
FaceSize == IF origin = "create_cube" THEN 4 ELSE 3

\* C8: next_edge and prev_edge are mutual inverses, and the walk along
\* next_edge from a face's seed returns to the seed after exactly the face's
\* vertex count, not earlier, over half-edges tagged with that face.
C8_FaceLoopClosure ==
    origin # "none" =>
        /\ \A i \in HalfEdgeIndices(hem) :
               /\ At(hem.half_edges, At(hem.half_edges, i).prev_edge).next_edge = i
               /\ At(hem.half_edges, At(hem.half_edges, i).next_edge).prev_edge = i
        /\ \A f \in 0..(Len(hem.faces) - 1) :
               LET seed == At(hem.faces, f).seed_half_edge
               IN /\ NextTimes(hem, seed, FaceSize) = seed
                  /\ \A n \in 1..(FaceSize - 1) : NextTimes(hem, seed, n) # seed
                  /\ \A n \in 0..(FaceSize - 1) :
                         At(hem.half_edges, NextTimes(hem, seed, n)).face_index = Some(f)

\* a mesh of two triangles was built
C8_Witness ==
    /\ origin = "from_mesh"
    /\ Len(hem.faces) = 2
    /\ Len(hem.half_edges) = 6

\* the vertices some triangle of the flat mesh uses
UsedVertices(m) == {m.face_indices[k] : k \in 1..(3 * (Len(m.face_indices) \div 3))}

\* the half-edges that originate at vertex v
OutgoingOf(h, v) ==
    {i \in HalfEdgeIndices(h) : SourceOf(h.half_edges, At(h.half_edges, i)) = v}

\* C9: from_mesh gives each vertex used by a triangle the lowest-indexed
\* half-edge that originates at it as seed, and an unused vertex no seed.
C9_FromMeshSeeds ==
    origin = "from_mesh" =>
        \A v \in 0..(Len(hem.vertices) - 1) :
            IF v \in UsedVertices(mesh)
            THEN /\ OutgoingOf(hem, v) # {}
                 /\ At(hem.vertices, v).seed_half_edge =
                        Some(CHOOSE i \in OutgoingOf(hem, v) :
                                 \A j \in OutgoingOf(hem, v) : i <= j)
            ELSE At(hem.vertices, v).seed_half_edge = None

\* a mesh where a vertex is used by two triangles and another by none
C9_Witness ==
    /\ origin = "from_mesh"
    /\ \E v \in 0..(Len(hem.vertices) - 1) : At(hem.vertices, v).seed_half_edge = None
    /\ \E v \in 0..(Len(hem.vertices) - 1) :
           \E i, j \in OutgoingOf(hem, v) :
               At(hem.half_edges, i).face_index # At(hem.half_edges, j).face_index

\* C10: each vertex of the cube of create_cube has a seed half-edge that
\* originates at it.
C10_CubeSeeds ==
    origin = "create_cube" =>
        \A v \in 0..(Len(hem.vertices) - 1) :
            /\ IsSome(At(hem.vertices, v).seed_half_edge)
            /\ Unwrap(At(hem.vertices, v).seed_half_edge) \in OutgoingOf(hem, v)

\* C11: on every mesh from_mesh builds, a call of
\* vertex_outgoing_half_edges returns, for every vertex: the walk reaches a
\* half-edge without twin or comes back to the seed.
C11_OutgoingWalkReturns ==
    (origin = "from_mesh" /\ lastOp = "vertex_outgoing_half_edges") => ret.walk.returns

\* C12: on the cube of create_cube, vertex_outgoing_half_edges(v) returns
\* exactly the half-edges leaving v: three, each once.
C12_CubeOutgoing ==
    (origin = "create_cube" /\ lastOp = "vertex_outgoing_half_edges") =>
        /\ ret.walk.returns
        /\ Len(ret.walk.outgoing) = 3
        /\ \A i, j \in 1..Len(ret.walk.outgoing) :
               ret.walk.outgoing[i] = ret.walk.outgoing[j] => i = j
        /\ {ret.walk.outgoing[i] : i \in 1..Len(ret.walk.outgoing)} = OutgoingOf(hem, ret.vertex_idx)

\* a flat mesh no directed edge of which is produced twice and every triangle
\* of which has three distinct vertices
Manifold(m) ==
    /\ NoEdgeTwice(m)
    /\ \A e \in DirectedEdges(m) : e[3] # e[4]

\* C26: on a HalfEdgeMesh built by from_mesh from manifold input,
\* vertex_outgoing_half_edges(v) returns; every half-edge it returns
\* originates at v, none is returned twice, the first is the seed of v, and
\* the result is empty when v has no seed.
C26_OutgoingFanManifold ==
    (origin = "from_mesh" /\ lastOp = "vertex_outgoing_half_edges" /\ Manifold(mesh)) =>
        LET outgoing == ret.walk.outgoing
            seed == At(hem.vertices, ret.vertex_idx).seed_half_edge
        IN /\ ret.walk.returns
           /\ \A i \in 1..Len(outgoing) : outgoing[i] \in OutgoingOf(hem, ret.vertex_idx)
           /\ \A i, j \in 1..Len(outgoing) : outgoing[i] = outgoing[j] => i = j
           /\ IF IsSome(seed)
              THEN outgoing # <<>> /\ outgoing[1] = Unwrap(seed)
              ELSE outgoing = <<>>

\* the walk went around a vertex of a closed manifold of two triangles
C26_Witness ==
    /\ origin = "from_mesh"
    /\ lastOp = "vertex_outgoing_half_edges"
    /\ Manifold(mesh)
    /\ Len(ret.walk.outgoing) = 2
    /\ \A i \in HalfEdgeIndices(hem) : IsSome(At(hem.half_edges, i).twin_index)

\* the orderings of the three vertices of a triangle
Orderings(t) ==
    {<<t[1], t[2], t[3]>>, <<t[2], t[3], t[1]>>, <<t[3], t[1], t[2]>>,
     <<t[1], t[3], t[2]>>, <<t[3], t[2], t[1]>>, <<t[2], t[1], t[3]>>}

\* C13: to_mesh(from_mesh(m)) has the vertices of m in the same order, as
\* many triangles as m, and its k-th triangle uses the three vertices of the
\* k-th triangle of m.
C13_RoundTrip ==
    (origin = "from_mesh" /\ lastOp = "to_mesh") =>
        /\ ret.vertex_coords = mesh.vertex_coords
        /\ Len(ret.face_indices) = Len(mesh.face_indices)
        /\ \A k \in 1..Len(ChunksExact3(mesh.face_indices)) :
               ChunksExact3(ret.face_indices)[k] \in Orderings(ChunksExact3(mesh.face_indices)[k])

\* the cube of Mesh::create_cube went through from_mesh and to_mesh
C13_Witness ==
    /\ origin = "from_mesh"
    /\ lastOp = "to_mesh"
    /\ mesh = Mesh_create_cube
    /\ Len(ret.face_indices) = 36

\* the rotations of a triangle: the same cyclic order
Rotations(t) == {<<t[1], t[2], t[3]>>, <<t[2], t[3], t[1]>>, <<t[3], t[1], t[2]>>}

\* C14: for a triangle face built by from_mesh from (v0, v1, v2), to_mesh
\* emits the three vertices in the same cyclic order.
C14_TriangleEmittedItself ==
    (origin = "from_mesh" /\ lastOp = "to_mesh") =>
        \A k \in 1..Len(ChunksExact3(mesh.face_indices)) :
            ChunksExact3(ret.face_indices)[k] \in Rotations(ChunksExact3(mesh.face_indices)[k])

\* the number of half-edges of the loop of a half-edge: the least number of
\* steps of next_edge that lead back to it
LoopLen(h, he) ==
    CHOOSE n \in 1..Len(h.half_edges) :
        /\ NextTimes(h, he, n) = he
        /\ \A m \in 1..(n - 1) : NextTimes(h, he, m) # he

\* the vertex cycle of a face: the targets of the half-edges of its loop
VertexCycle(h, face) ==
    [k \in 1..LoopLen(h, face.seed_half_edge) |->
        At(h.half_edges, NextTimes(h, face.seed_half_edge, k - 1)).target_vertex_index]

RECURSIVE TrianglesBefore(_, _)
\* the number of triangles of the fans of the faces before face f (0-based)
TrianglesBefore(h, f) ==
    IF f = 0 THEN 0
    ELSE TrianglesBefore(h, f - 1) + LoopLen(h, At(h.faces, f - 1).seed_half_edge) - 2

\* C27: to_mesh emits a face of n >= 3 half-edges as n - 2 triangles that
\* share one vertex of the face, each with two more vertices that follow each
\* other in the face's vertex cycle; the cube of create_cube flattens to 8
\* vertices and 12 triangles with indices below 8.
C27_FanTriangulation ==
    (origin # "none" /\ lastOp = "to_mesh") =>
        LET triangles == ChunksExact3(ret.face_indices)
        IN /\ Len(ret.face_indices) = 3 * TrianglesBefore(hem, Len(hem.faces))
           /\ \A f \in 0..(Len(hem.faces) - 1) :
                  LET cycle == VertexCycle(hem, At(hem.faces, f))
                      n == Len(cycle)
                      first == TrianglesBefore(hem, f)
                  IN /\ n >= 3
                     /\ \E p \in 1..n :
                            \A k \in 1..(n - 2) :
                                \E i \in 1..n :
                                    triangles[first + k] \in
                                        Orderings(<<cycle[p], cycle[i], cycle[(i % n) + 1]>>)
           /\ origin = "create_cube" =>
                  /\ Len(ret.vertex_coords) = 3 * 8
                  /\ Len(ret.face_indices) = 36
                  /\ \A k \in 1..36 : ret.face_indices[k] < 8

\* the quad cube has been flattened: 12 triangles, two for each face
C27_Witness ==
    /\ origin = "create_cube"
    /\ lastOp = "to_mesh"
    /\ Len(hem.faces) = 6
    /\ LoopLen(hem, At(hem.faces, 0).seed_half_edge) = 4
    /\ Len(ret.face_indices) = 36

\* C25: in a HalfEdgeMesh built by from_mesh, half-edge 3k + j runs along
\* side j of triangle k; a half-edge with a twin has the twin's target as
\* source and the twin's source as target; and a half-edge has no twin
\* exactly when no half-edge runs from its target to its source.
C25_TwinsRunOpposite ==
    origin = "from_mesh" =>
        /\ \A e \in DirectedEdges(mesh) :
               LET he == At(hem.half_edges, 3 * (e[1] - 1) + (e[2] - 1))
               IN SourceOf(hem.half_edges, he) = e[3] /\ he.target_vertex_index = e[4]
        /\ \A i \in HalfEdgeIndices(hem) :
               LET he == At(hem.half_edges, i)
                   source == At(hem.half_edges, he.prev_edge).target_vertex_index
                   target == he.target_vertex_index
                   reversed == {j \in HalfEdgeIndices(hem) :
                                   /\ At(hem.half_edges, j).target_vertex_index = source
                                   /\ At(hem.half_edges,
                                         At(hem.half_edges, j).prev_edge).target_vertex_index
                                      = target}
               IN IF IsSome(he.twin_index)
                  THEN Unwrap(he.twin_index) \in reversed
                  ELSE reversed = {}

\* two triangles over the same three vertices in opposite orientations, one
\* edge produced twice: some half-edges have twins, and all run opposite
C25_Witness ==
    /\ origin = "from_mesh"
    /\ Len(hem.half_edges) = 6
    /\ ~NoEdgeTwice(mesh)
    /\ \E i \in HalfEdgeIndices(hem) : IsSome(At(hem.half_edges, i).twin_index)
    /\ \E i \in HalfEdgeIndices(hem) : ~IsSome(At(hem.half_edges, i).twin_index)

(***************************************************************************)
(* Raycasting (scene_graph.rs:148-247). The Ray3 and HitResponse types     *)
(* are not part of src/: a ray is held as what the traversal reads of it,  *)
(* the outcome of the intersection with each triangle of each mesh         *)
(* reference (every reference of a tree has a mesh of its own, so the      *)
(* MeshId stands for the mesh and its world transform): None for a miss,   *)
(* Some(d) for a hit at world distance d.                                  *)
(***************************************************************************)
\* a quad of two triangles and a single triangle
QuadMesh == [vertex_coords |-> FlatCoords(4), face_indices |-> <<0, 1, 2, 0, 2, 3>>]
TriangleMesh == [vertex_coords |-> FlatCoords(3), face_indices |-> <<0, 1, 2>>]

\* the registry after from_mesh of the quad was wrapped (mesh 1, as
\* add_sphere does, scene.rs:114-121) and add_raw_mesh (the others)
RaycastMeshes ==
    [m \in TraversalMeshIds |->
        IF m = 1 THEN ModelWrapper_new(from_mesh(QuadMesh)) ELSE ModelVariant_Mesh(TriangleMesh)]

\* the registry whole, and without the entry of mesh 1
RegistryInputs == {RaycastMeshes, [m \in TraversalMeshIds \ {1} |-> RaycastMeshes[m]]}

\* the world distances of hits
Distances == {1, 2}
Outcomes == {None} \cup {Some(d) : d \in Distances}

\* the rays: for every mesh an outcome for each of its triangles
RayInputs ==
    {r \in [TraversalMeshIds -> UNION {[1..n -> Outcomes] : n \in 1..2}] :
        \A m \in TraversalMeshIds :
            Len(r[m]) = Len(ChunksExact3(get_mesh(RaycastMeshes[m]).face_indices))}

\* moller_trumbore_intersection_exterior_algebra on the ray taken to the
\* local space and the hit taken back to world space, with its length
\* (scene_graph.rs:219-225): the world distance of the hit of triangle tri
\* (0-based) of the mesh, None for a miss
Intersect(r, mesh_id, tri) == At(r[mesh_id], tri)

\* the replacement test with <= for <
ShouldReplace_OrEqual(closest, distance) ==
    IF IsSome(closest) THEN distance <= Unwrap(closest).distance ELSE TRUE

\* should_replace / should_update (scene_graph.rs:168-171, 181-184, 226-230)
ShouldReplace(closest, distance) ==
    IF IsSome(closest) THEN distance < Unwrap(closest).distance ELSE TRUE

RECURSIVE TriangleHitLoop(_, _, _, _, _, _)
\* the loop over the triangles of a mesh (scene_graph.rs:211-241)
TriangleHitLoop(r, mesh_id, m, object_id, tri, closest) ==
    IF tri >= Len(ChunksExact3(m.face_indices)) THEN closest
    ELSE LET this_hit == Intersect(r, mesh_id, tri)
         IN IF IsSome(this_hit) /\ ShouldReplace(closest, Unwrap(this_hit))
            THEN TriangleHitLoop(r, mesh_id, m, object_id, tri + 1,
                                 Some([hit_response |-> [mesh_id |-> mesh_id, triangle |-> tri],
                                       distance |-> Unwrap(this_hit),
                                       object_id |-> object_id,
                                       selection_path |-> <<>>]))
            ELSE TriangleHitLoop(r, mesh_id, m, object_id, tri + 1, closest)

\* SceneGraphNode::raycast_model (scene_graph.rs:203-247)
raycast_model(r, mesh_id, model, world_transform, object_id) ==
    TriangleHitLoop(r, mesh_id, get_mesh(model), object_id, 0, None)

\* the path recorded for the hit of a mesh reference, without the
\* reference's own EdgeId
PathOfHit_WithoutLeaf(current_path) == SubSeq(current_path, 1, Len(current_path) - 1)

\* hit.selection_path = current_path.clone() (scene_graph.rs:187)
PathOfHit(current_path) == current_path

RECURSIVE raycast_closest_hit(_, _, _, _, _, _)
RECURSIVE RaycastEdges(_, _, _, _, _, _, _, _)
\* SceneGraphNode::raycast_closest_hit (scene_graph.rs:148-200): returns the
\* closest hit and the values of the counter and of the path accumulator on
\* return
raycast_closest_hit(self, r, parent_transform, object_id, ms, current_path) ==
    LET world_transform == compose_with_parent(self.transform, parent_transform)
    IN RaycastEdges(self, 1, r, world_transform, object_id, ms, current_path, None)

\* the loop over the edges (scene_graph.rs:162-197)
RaycastEdges(self, i, r, world_transform, object_id, ms, current_path, closest) ==
    IF i > Len(self.edges)
    THEN [closest |-> closest, object_id |-> object_id, current_path |-> current_path]
    ELSE LET edge == self.edges[i]
             pushed == Append(current_path, edge.edge_id)
             popped(path) == SubSeq(path, 1, Len(path) - 1)
         IN IF edge.child.kind = "Node"
            THEN LET sub == raycast_closest_hit(edge.child.node, r, world_transform,
                                                object_id, ms, pushed)
                     replaced ==
                         IF IsSome(sub.closest)
                            /\ ShouldReplace(closest, Unwrap(sub.closest).distance)
                         THEN sub.closest ELSE closest
                 IN RaycastEdges(self, i + 1, r, world_transform, sub.object_id, ms,
                                 popped(sub.current_path), replaced)
            ELSE LET entry == MapGet(ms, edge.child.mesh_id)
                     hit == IF IsSome(entry)
                            THEN raycast_model(r, edge.child.mesh_id, Unwrap(entry),
                                               world_transform, object_id)
                            ELSE None
                     replaced ==
                         IF IsSome(hit) /\ ShouldReplace(closest, Unwrap(hit).distance)
                         THEN Some([Unwrap(hit) EXCEPT !.selection_path = PathOfHit(pushed)])
                         ELSE closest
                 IN RaycastEdges(self, i + 1, r, world_transform, object_id + 1, ms,
                                 popped(pushed), replaced)

\* Scene::raycast_closest_hit (scene.rs:169-174)
Scene_raycast_closest_hit(self, r) ==
    Returning(self, raycast_closest_hit(self.root, r, identity, 0, self.meshes, <<>>).closest)

(***************************************************************************)
(* Specification of raycasting: a Scene and a ray are drawn, and the ray   *)
(* is cast.                                                                *)
(***************************************************************************)
InitRaycast ==
    /\ root \in TraversalTrees
    /\ dirty = FALSE
    /\ meshes \in RegistryInputs
    /\ cached_render_instances = <<>>
    /\ hierarchy_dirty = TRUE
    /\ selected_path = None
    /\ lastOp = "new"
    /\ ret = <<>>
    /\ mesh = EmptyMesh
    /\ hem = EmptyHem
    /\ origin = "none"
    /\ ray \in RayInputs
    /\ wrapper = NoWrapper
    /\ args = NoArgs

RaycastClosestHit ==
    Call("raycast_closest_hit", Scene_raycast_closest_hit(Self, ray))

NextRaycast == RaycastClosestHit

SpecRaycast == InitRaycast /\ [][NextRaycast]_vars

(***************************************************************************)
(* Specification of flattening: a tree and a selection are drawn, and the  *)
(* tree is flattened below a parent transform.                             *)
(***************************************************************************)
InitFlatten ==
    /\ \/ root \in TraversalTrees /\ selected_path \in SelectionInputs
       \/ root \in TransformTrees /\ selected_path = None
    /\ dirty = FALSE
    /\ meshes = RaycastMeshes
    /\ cached_render_instances = <<>>
    /\ hierarchy_dirty = TRUE
    /\ lastOp = "new"
    /\ ret = <<>>
    /\ mesh = EmptyMesh
    /\ hem = EmptyHem
    /\ origin = "none"
    /\ ray = NoRay
    /\ wrapper = NoWrapper
    /\ args = NoArgs

\* root.flatten_to_render_instances(parent_transform, &mut 0, meshes, &[],
\* selected_path), as rebuild_cache calls it (scene.rs:61-68) with the
\* identity
FlattenToRenderInstances ==
    \E parent_transform \in {identity, RotZ90} :
        /\ lastOp' = "flatten_to_render_instances"
        /\ ret' = [parent_transform |-> parent_transform,
                   flat |-> flatten_to_render_instances(root, parent_transform, 0, <<>>,
                                                        selected_path)]
        /\ UNCHANGED <<sceneVars, meshVars, rayVars, wrapperVars, argVars>>

NextFlatten == FlattenToRenderInstances

SpecFlatten == InitFlatten /\ [][NextFlatten]_vars

(***************************************************************************)
(* Properties of the traversals                                            *)
(***************************************************************************)
RECURSIVE LeavesOf(_, _, _)
RECURSIVE LeavesFrom(_, _, _, _)
\* the mesh-reference edges below a node in pre-order (depth first, a node's
\* edges in insertion order), each with its EdgeId path from the root, its
\* MeshId and the local transforms from the root down to the node that
\* holds the edge
LeavesOf(node, path, chain) == LeavesFrom(node, 1, path, Append(chain, node.transform))
LeavesFrom(node, i, path, chain) ==
    IF i > Len(node.edges) THEN <<>>
    ELSE LET e == node.edges[i]
             here == IF e.child.kind = "Model"
                     THEN << [path |-> Append(path, e.edge_id), mesh_id |-> e.child.mesh_id,
                              chain |-> chain] >>
                     ELSE LeavesOf(e.child.node, Append(path, e.edge_id), chain)
         IN here \o LeavesFrom(node, i + 1, path, chain)

\* the hits of a ray: leaf j (in pre-order) with a registered mesh, triangle
\* tri of its mesh, world distance d
HitsOf(r, ms, rt) ==
    LET leaves == LeavesOf(rt, <<>>, <<>>)
    IN {h \in [leaf : 1..Len(leaves), tri : 0..1, d : Distances] :
           /\ leaves[h.leaf].mesh_id \in DOMAIN ms
           /\ h.tri < Len(ChunksExact3(get_mesh(ms[leaves[h.leaf].mesh_id]).face_indices))
           /\ Intersect(r, leaves[h.leaf].mesh_id, h.tri) = Some(h.d)}

\* h is met before g in the traversal
MetBefore(h, g) == h.leaf < g.leaf \/ (h.leaf = g.leaf /\ h.tri < g.tri)

\* the hit the traversal has to return: of least distance, and the first
\* met among those
IsFirstClosest(h, hits) ==
    /\ h \in hits
    /\ \A g \in hits : h.d <= g.d
    /\ \A g \in hits : (g.d = h.d /\ g # h) => MetBefore(h, g)

\* C15: raycast_closest_hit returns none exactly when no triangle of a leaf
\* with a registered mesh is hit; otherwise the hit of least world distance,
\* and among those of least distance the one met first in pre-order.
C15_ClosestHitFirstFound ==
    lastOp = "raycast_closest_hit" =>
        LET hits == HitsOf(ray, meshes, root)
            leaves == LeavesOf(root, <<>>, <<>>)
        IN /\ ret = None <=> hits = {}
           /\ ret # None =>
                  \E h \in hits :
                      /\ IsFirstClosest(h, hits)
                      /\ Unwrap(ret).distance = h.d
                      /\ Unwrap(ret).hit_response =
                             [mesh_id |-> leaves[h.leaf].mesh_id, triangle |-> h.tri]

\* a leaf inside a child node and a later leaf of the root are hit at the
\* same distance, and the hit of the first is returned
C15_Witness ==
    /\ lastOp = "raycast_closest_hit"
    /\ ret # None
    /\ LET hits == HitsOf(ray, meshes, root)
           leaves == LeavesOf(root, <<>>, <<>>)
       IN \E h, g \in hits :
              /\ h.leaf < g.leaf
              /\ h.d = g.d
              /\ Len(leaves[h.leaf].path) = 2
              /\ Len(leaves[g.leaf].path) = 1
              /\ Unwrap(ret).hit_response =
                     [mesh_id |-> leaves[h.leaf].mesh_id, triangle |-> h.tri]

RECURSIVE SubNodes(_)
\* a node and the nodes below it
SubNodes(node) ==
    {node} \cup UNION {SubNodes(node.edges[k].child.node) :
                          k \in {j \in 1..Len(node.edges) : node.edges[j].child.kind = "Node"}}

\* C16: the selection_path of the hit returned is the EdgeId path from the
\* root to the mesh-reference edge that was hit, ending with that edge's
\* EdgeId; and a traversal returns the path accumulator as it was given.
C16_HitPathIsFullPath ==
    lastOp = "raycast_closest_hit" =>
        /\ ret # None =>
               \E l \in {LeavesOf(root, <<>>, <<>>)[j] :
                             j \in 1..Len(LeavesOf(root, <<>>, <<>>))} :
                   /\ l.mesh_id = Unwrap(ret).hit_response.mesh_id
                   /\ Unwrap(ret).selection_path = l.path
        /\ \A node \in SubNodes(root), entry \in {<<>>, <<7>>, <<7, 8>>} :
               raycast_closest_hit(node, ray, identity, 0, meshes, entry).current_path = entry

\* a leaf two child nodes deep was hit
C16_Witness ==
    /\ lastOp = "raycast_closest_hit"
    /\ ret # None
    /\ Len(Unwrap(ret).selection_path) = 3

\* C17: flatten_to_render_instances started with counter 0 emits one
\* RenderInstance for each mesh-reference edge, in pre-order; the k-th
\* emitted has id k, and the counter ends at their number.
C17_FlattenOnePerLeafInOrder ==
    lastOp = "flatten_to_render_instances" =>
        LET leaves == LeavesOf(root, <<>>, <<>>)
        IN /\ Len(ret.flat.instances) = Len(leaves)
           /\ \A k \in 1..Len(leaves) :
                  /\ ret.flat.instances[k].mesh_id = leaves[k].mesh_id
                  /\ ret.flat.instances[k].id = k - 1
           /\ ret.flat.object_id = Len(leaves)

\* a tree with a mesh reference inside a child node between two of the root
C17_Witness ==
    /\ lastOp = "flatten_to_render_instances"
    /\ Len(ret.flat.instances) = 2
    /\ Len(root.edges) = 2
    /\ root.edges[1].child.kind = "Node"
    /\ ret.flat.instances[2].id = 1

\* a is a prefix of b
IsPrefix(a, b) == Len(a) <= Len(b) /\ \A i \in 1..Len(a) : a[i] = b[i]

\* C18: an instance of the flattened list is flagged selected exactly when a
\* selection exists and the instance's EdgeId path equals the selected path,
\* has it as a prefix, or is a prefix of it.
C18_SelectionFlags ==
    lastOp = "flatten_to_render_instances" =>
        LET leaves == LeavesOf(root, <<>>, <<>>)
        IN \A k \in 1..Len(ret.flat.instances) :
               ret.flat.instances[k].is_selected <=>
                   /\ selected_path # None
                   /\ \/ leaves[k].path = Unwrap(selected_path)
                      \/ IsPrefix(Unwrap(selected_path), leaves[k].path)
                      \/ IsPrefix(leaves[k].path, Unwrap(selected_path))

\* the edge of a child node is selected: the mesh reference inside it is
\* flagged, the one beside it is not
C18_Witness ==
    /\ lastOp = "flatten_to_render_instances"
    /\ selected_path # None
    /\ Len(Unwrap(selected_path)) = 1
    /\ \E k \in 1..Len(root.edges) :
           /\ root.edges[k].edge_id = Unwrap(selected_path)[1]
           /\ root.edges[k].child.kind = "Node"
    /\ \E i, j \in 1..Len(ret.flat.instances) :
           ret.flat.instances[i].is_selected /\ ~ret.flat.instances[j].is_selected

RECURSIVE ProductFromLeft(_, _, _)
\* ((parent * chain[1]) * chain[2]) * ...
ProductFromLeft(acc, chain, i) ==
    IF i > Len(chain) THEN acc ELSE ProductFromLeft(MatMul(acc, chain[i]), chain, i + 1)

RECURSIVE ProductFromRight(_, _)
\* chain[i] * (chain[i+1] * (... * chain[n]))
ProductFromRight(chain, i) ==
    IF i > Len(chain) THEN identity ELSE MatMul(chain[i], ProductFromRight(chain, i + 1))

\* the rotation by 180 degrees about Z
RotZ180 ==
    << <<-1, 0, 0, 0>>,
       <<0, -1, 0, 0>>,
       <<0, 0, 1, 0>>,
       <<0, 0, 0, 1>> >>

\* C19: the world transform of an emitted instance is the product
\* parent_transform * T_root * T_1 * ... * T_k of the local transforms on the
\* way from the root to the node that holds the mesh reference, the parent
\* on the left, however the product is bracketed.
C19_TransformChain ==
    lastOp = "flatten_to_render_instances" =>
        LET leaves == LeavesOf(root, <<>>, <<>>)
        IN \A k \in 1..Len(ret.flat.instances) :
               /\ ret.flat.instances[k].transform =
                      ProductFromLeft(ret.parent_transform, leaves[k].chain, 1)
               /\ ret.flat.instances[k].transform =
                      MatMul(ret.parent_transform, ProductFromRight(leaves[k].chain, 1))

\* two rotations by 90 degrees about Z, the parent's and a child node's, give
\* the rotation by 180 degrees, applied to the translation of the node below
C19_Witness ==
    /\ lastOp = "flatten_to_render_instances"
    /\ ret.parent_transform = RotZ90
    /\ \E k \in 1..Len(ret.flat.instances) :
           /\ ret.flat.instances[k].transform = MatMul(RotZ180, TranslateX)
           /\ ret.flat.instances[k].transform # MatMul(TranslateX, RotZ180)

\* C22: remove_object with an index that is not below the number of root
\* edges, and update_transform with such an index or with the index of a
\* mesh-reference edge, return false and leave the whole Scene (tree,
\* selection, both dirty flags, cached list, registry) unchanged.
C22_InvalidIndexChangesNothing ==
    \A id \in 0..(MaxEdges + 1) :
        /\ id >= Len(root.edges)
              => /\ remove_object(Self, id) = Returning(Self, Some(FALSE))
                 /\ \A t \in TransformInputs :
                        update_transform(Self, id, t) = Returning(Self, Some(FALSE))
        /\ (id < Len(root.edges) /\ root.edges[id + 1].child.kind = "Model")
              => \A t \in TransformInputs :
                     update_transform(Self, id, t) = Returning(Self, Some(FALSE))

\* update_transform has failed on a Scene of mesh references only, with a
\* selection and a rebuilt cache
C22_Witness ==
    /\ lastOp = "update_transform"
    /\ ret = Some(FALSE)
    /\ Len(root.edges) > 0
    /\ \A k \in 1..Len(root.edges) : root.edges[k].child.kind = "Model"
    /\ selected_path # None
    /\ ~hierarchy_dirty
    /\ cached_render_instances # <<>>

\* C28: in every reachable Scene state a selection that is set is a
\* non-empty path that is valid in the current tree.
C28_SelectionValid ==
    IsSome(selected_path) =>
        /\ Unwrap(selected_path) # <<>>
        /\ PathValidInTree(root, Unwrap(selected_path))

\* C29: for a hit returned by raycast_closest_hit, select_by_edge_path of
\* the hit's selection_path on the unchanged Scene returns true, and in the
\* list get_render_instances returns afterwards exactly one instance is
\* flagged selected, the one whose id is the hit's object_id.
C29_PickThenSelect ==
    (lastOp = "raycast_closest_hit" /\ ret # None) =>
        LET hit == Unwrap(ret)
            selected == select_by_edge_path(Self, hit.selection_path)
            list == get_render_instances(selected.self).self.cached_render_instances
        IN /\ selected.ret = Some(TRUE)
           /\ \E k \in 1..Len(list) : list[k].id = hit.object_id
           /\ \A k \in 1..Len(list) : list[k].is_selected <=> (list[k].id = hit.object_id)

\* a mesh reference inside a child node was hit after a mesh reference
\* whose mesh is not registered was passed
C29_Witness ==
    /\ lastOp = "raycast_closest_hit"
    /\ ret # None
    /\ 1 \notin DOMAIN meshes
    /\ Unwrap(ret).object_id >= 1
    /\ Len(Unwrap(ret).selection_path) = 2

\* C30: when remove_object(id) returns true, the render-instance list of the
\* Scene after it is the list of the Scene before it without the one
\* instance whose id is `id`, the others in their order with their mesh
\* references.
C30_RemoveObjectRemovesInstanceOfId ==
    \A id \in 0..MaxEdges :
        LET removed == remove_object(Self, id)
            before == FlattenOf(Self)
            after == FlattenOf(removed.self)
        IN removed.ret = Some(TRUE) =>
               /\ \E k \in 1..Len(before) : before[k].id = id
               /\ Len(after) = Len(before) - 1
               /\ \A k \in 1..Len(after) :
                      after[k].mesh_id = before[IF k - 1 < id THEN k ELSE k + 1].mesh_id

\* C20: hierarchy_dirty goes from dirty to clean only in a call of
\* get_render_instances, and a call of get_render_instances on a clean Scene
\* leaves the cached list, the model caches, the selection and both dirty
\* flags (and the tree) as they are.
C20_RebuildOncePerDirtyWindow ==
    [][/\ (hierarchy_dirty /\ ~hierarchy_dirty') => lastOp' = "get_render_instances"
       /\ (~hierarchy_dirty /\ lastOp' = "get_render_instances")
              => UNCHANGED sceneVars]_vars

\* get_render_instances has been called on a clean Scene with a populated
\* cache
C20_Witness ==
    /\ lastOp = "get_render_instances"
    /\ ~hierarchy_dirty
    /\ ~dirty
    /\ cached_render_instances # <<>>

(***************************************************************************)
(* Specification of a model on its own: a ModelVariant is constructed,     *)
(* wrapping a HalfEdgeMesh or holding a raw Mesh, and is read and synced.  *)
(* The fields of ModelWrapper are private and no method sets dirty, so the *)
(* flag stays as new leaves it.                                            *)
(***************************************************************************)
\* the models new can be given: the products of from_mesh and the cube
WrapperInputs ==
    {ModelWrapper_new(from_mesh(m)) : m \in MeshInputs}
    \cup {ModelWrapper_new(create_cube)}
    \cup {ModelVariant_Mesh(m) : m \in MeshInputs}

InitWrapper ==
    /\ wrapper \in WrapperInputs
    /\ root = SceneGraphNode_new
    /\ dirty = FALSE
    /\ meshes = <<>>
    /\ cached_render_instances = <<>>
    /\ hierarchy_dirty = TRUE
    /\ selected_path = None
    /\ lastOp = "new"
    /\ ret = <<>>
    /\ mesh = EmptyMesh
    /\ hem = EmptyHem
    /\ origin = "none"
    /\ ray = NoRay
    /\ args = NoArgs

GetMesh ==
    /\ lastOp' = "get_mesh"
    /\ ret' = get_mesh(wrapper)
    /\ UNCHANGED <<wrapperVars, sceneVars, meshVars, rayVars, argVars>>

SyncRenderMesh ==
    /\ wrapper' = ModelVariant_sync_render_mesh(wrapper)
    /\ lastOp' = "sync_render_mesh"
    /\ ret' = <<>>
    /\ UNCHANGED <<sceneVars, meshVars, rayVars, argVars>>

NextWrapper ==
    \/ GetMesh
    \/ SyncRenderMesh

SpecWrapper == InitWrapper /\ [][NextWrapper]_vars

(***************************************************************************)
(* Properties of a model on its own                                        *)
(***************************************************************************)
\* the wrapper as an edit of the model would leave it: flagged, the cache
\* not yet recomputed
Stale(w) == [w EXCEPT !.dirty = TRUE, !.render_mesh = EmptyMesh]

\* the cache of a clean wrapper is to_mesh of its model; sync_render_mesh is
\* the identity on a clean wrapper and on a raw Mesh, and repairs a stale one
WrapperCoherent(w) ==
    /\ (w.variant = "HalfEdgeMesh" /\ ~w.dirty) => (get_mesh(w) = to_mesh(w.model))
    /\ (w.variant = "Mesh" \/ ~w.dirty) => (ModelVariant_sync_render_mesh(w) = w)
    /\ (w.variant = "HalfEdgeMesh") =>
           (/\ ModelVariant_sync_render_mesh(Stale(w)) =
                   [w EXCEPT !.render_mesh = to_mesh(w.model), !.dirty = FALSE]
            /\ get_mesh(Stale(w)) = EmptyMesh)

\* a step of get_mesh returns the held mesh and changes nothing; a step of
\* sync_render_mesh on a clean wrapper changes nothing
ReadsLeaveWrapper ==
    /\ (lastOp' = "get_mesh") =>
           (/\ wrapper' = wrapper
            /\ ret' = IF wrapper.variant = "HalfEdgeMesh"
                      THEN wrapper.render_mesh ELSE wrapper.model)
    /\ (lastOp' = "sync_render_mesh" /\ ~wrapper.dirty) => (wrapper' = wrapper)

\* C21: a ModelWrapper whose dirty flag is false holds to_mesh of its model
\* as render mesh; sync_render_mesh changes nothing on a clean wrapper and on
\* a raw Mesh, and on a dirty wrapper recomputes the render mesh and clears
\* the flag; get_mesh returns the cached mesh, stale or not, and changes
\* nothing.
C21_ModelCache ==
    /\ [](wrapper # NoWrapper => WrapperCoherent(wrapper))
    /\ [][ReadsLeaveWrapper]_vars

\* the wrapped cube has been synced: its render mesh has the 12 triangles
C21_Witness ==
    /\ lastOp = "sync_render_mesh"
    /\ wrapper.variant = "HalfEdgeMesh"
    /\ ~wrapper.dirty
    /\ wrapper.model = create_cube
    /\ Len(wrapper.render_mesh.face_indices) = 36

(***************************************************************************)
(* Algebra (algebra.rs): Vec3, Bivec3 and Trivec3 are records of their     *)
(* components. The components are integers, which f32 holds exactly; the  *)
(* sums and products of the small ones drawn here are exact in f32 too.    *)
(***************************************************************************)
Vec3_new(x, y, z) == [x |-> x, y |-> y, z |-> z]

\* Sub for Vec3 (algebra.rs:86-91)
Vec3_sub(self, other) == Vec3_new(self.x - other.x, self.y - other.y, self.z - other.z)

\* Vec3 ^ Vec3 with the xz component taken from the other side
Vec3_wedge_SwappedXz(self, other) ==
    [xy |-> self.x * other.y - self.y * other.x,
     xz |-> self.z * other.x - self.x * other.z,
     yz |-> self.y * other.z - self.z * other.y]

\* BitXor for Vec3: Vec3 ^ Vec3 -> Bivec3 (algebra.rs:105-114)
Vec3_wedge(self, other) ==
    [xy |-> self.x * other.y - self.y * other.x,
     xz |-> self.x * other.z - self.z * other.x,
     yz |-> self.y * other.z - self.z * other.y]

\* BitXor<Bivec3> for Vec3: Vec3 ^ Bivec3 -> Trivec3 (algebra.rs:116-121)
Vec3_wedge_Bivec3(self, other) ==
    [xyz |-> self.x * other.yz - self.y * other.xz + self.z * other.xy]

\* BitXor<Vec3> for Bivec3: Bivec3 ^ Vec3 -> Trivec3 (algebra.rs:122-127)
Bivec3_wedge_Vec3(self, other) ==
    [xyz |-> self.xy * other.z - self.xz * other.y + self.yz * other.x]

\* Vec3::dot (algebra.rs:146-148)
Vec3_dot(self, other) == self.x * other.x + self.y * other.y + self.z * other.z

(***************************************************************************)
(* Specification of the wedge products: three Vec3 are drawn and wedged.   *)
(***************************************************************************)
Coords == -1..MaxCoord
Vec3Inputs == {Vec3_new(x, y, z) : x \in Coords, y \in Coords, z \in Coords}

InitAlgebra ==
    /\ args \in [a : Vec3Inputs, b : Vec3Inputs, c : Vec3Inputs]
    /\ root = SceneGraphNode_new
    /\ dirty = FALSE
    /\ meshes = <<>>
    /\ cached_render_instances = <<>>
    /\ hierarchy_dirty = TRUE
    /\ selected_path = None
    /\ lastOp = "new"
    /\ ret = <<>>
    /\ mesh = EmptyMesh
    /\ hem = EmptyHem
    /\ origin = "none"
    /\ ray = NoRay
    /\ wrapper = NoWrapper

\* a ^ b
WedgeVec3Vec3 ==
    /\ lastOp' = "Vec3^Vec3"
    /\ ret' = Vec3_wedge(args.a, args.b)
    /\ UNCHANGED <<argVars, sceneVars, meshVars, rayVars, wrapperVars>>

\* a ^ (b ^ c)
WedgeVec3Bivec3 ==
    /\ lastOp' = "Vec3^Bivec3"
    /\ ret' = Vec3_wedge_Bivec3(args.a, Vec3_wedge(args.b, args.c))
    /\ UNCHANGED <<argVars, sceneVars, meshVars, rayVars, wrapperVars>>

\* (a ^ b) ^ c
WedgeBivec3Vec3 ==
    /\ lastOp' = "Bivec3^Vec3"
    /\ ret' = Bivec3_wedge_Vec3(Vec3_wedge(args.a, args.b), args.c)
    /\ UNCHANGED <<argVars, sceneVars, meshVars, rayVars, wrapperVars>>

NextAlgebra ==
    \/ WedgeVec3Vec3
    \/ WedgeVec3Bivec3
    \/ WedgeBivec3Vec3

SpecAlgebra == InitAlgebra /\ [][NextAlgebra]_vars

(***************************************************************************)
(* Properties of the algebra                                               *)
(***************************************************************************)
\* the determinant of the matrix of rows a, b, c, expanded along the first
Det3(a, b, c) ==
    a.x * (b.y * c.z - b.z * c.y)
    - a.y * (b.x * c.z - b.z * c.x)
    + a.z * (b.x * c.y - b.y * c.x)

Bivec3_neg(w) == [xy |-> 0 - w.xy, xz |-> 0 - w.xz, yz |-> 0 - w.yz]

\* C24: a ^ b is the component-wise negation of b ^ a, so a ^ a is zero;
\* (a ^ b) ^ c and a ^ (b ^ c) are both the determinant of (a, b, c); and
\* Vec3 ^ Bivec3 and Bivec3 ^ Vec3 agree on the same operands.
C24_WedgeAlgebra ==
    /\ lastOp = "Vec3^Vec3" =>
           /\ ret = Bivec3_neg(Vec3_wedge(args.b, args.a))
           /\ args.a = args.b => ret = [xy |-> 0, xz |-> 0, yz |-> 0]
    /\ lastOp = "Vec3^Bivec3" =>
           /\ ret.xyz = Det3(args.a, args.b, args.c)
           /\ ret = Bivec3_wedge_Vec3(Vec3_wedge(args.b, args.c), args.a)
    /\ lastOp = "Bivec3^Vec3" =>
           /\ ret.xyz = Det3(args.a, args.b, args.c)
           /\ ret = Vec3_wedge_Bivec3(args.a, Vec3_wedge(args.b, args.c))
           /\ ret = Vec3_wedge_Bivec3(args.c, Vec3_wedge(args.a, args.b))

\* three independent vectors have been wedged: the volume is not zero
C24_Witness ==
    /\ lastOp = "Bivec3^Vec3"
    /\ ret.xyz = -1
    /\ args.a # args.b
    /\ Vec3_wedge(args.a, args.b).xz # 0

(***************************************************************************)
(* Intersection (algorithms.rs). The lengths of one call (the origin of    *)
(* the ray and the corners of the triangle) are integers in a unit of      *)
(* 2^-shift, the direction is a Vec3 of integers; all of these are exact   *)
(* f32 values. A quotient is held as a fraction <<n, d>> in lowest terms   *)
(* with d > 0, so the rounding of 1.0 / det and of the products with it is *)
(* not part of the model. Dual, InnerProduct and Ray3 are not part of      *)
(* src/: the dual of a bivector is the Vec3 that makes the dual of a ^ b   *)
(* the cross product of a and b, inner is the dot product, and             *)
(* ray.direction() is the direction as given, not normalized.              *)
(***************************************************************************)
\* f32::EPSILON is 2^-23 (algorithms.rs:16)
EpsilonExp == 23

RECURSIVE Pow2(_)
Pow2(k) == IF k = 0 THEN 1 ELSE 2 * Pow2(k - 1)

Abs(n) == IF n < 0 THEN 0 - n ELSE n

RECURSIVE GCD(_, _)
GCD(m, n) == IF n = 0 THEN m ELSE GCD(n, m % n)

\* the fraction n / d, d # 0, in lowest terms with a positive denominator
Frac(n, d) ==
    LET g == GCD(Abs(n), Abs(d))
    IN IF d > 0 THEN <<n \div g, d \div g>> ELSE <<(0 - n) \div g, (0 - d) \div g>>

FracAdd(p, q) == Frac(p[1] * q[2] + q[1] * p[2], p[2] * q[2])
FracTimes(p, k) == Frac(p[1] * k, p[2])
FracLess(p, q) == p[1] * q[2] < q[1] * p[2]
FracOfInt(k) == <<k, 1>>

\* q < f32::EPSILON and q > f32::EPSILON for a quantity q in the unit 2^-e
LessThanEpsilon(q, e) ==
    IF e >= EpsilonExp
    THEN q[1] < q[2] * Pow2(e - EpsilonExp)
    ELSE q[1] <= 0 \/ (q[2] >= Pow2(EpsilonExp - e) /\ q[1] * Pow2(EpsilonExp - e) < q[2])

GreaterThanEpsilon(q, e) ==
    IF e >= EpsilonExp
    THEN q[1] > q[2] * Pow2(e - EpsilonExp)
    ELSE q[1] > 0 /\ (q[2] < Pow2(EpsilonExp - e) \/ q[1] * Pow2(EpsilonExp - e) > q[2])

\* Dual for Bivec3
Bivec3_dual(self) == Vec3_new(self.yz, 0 - self.xz, self.xy)

\* InnerProduct for Vec3
Vec3_inner(self, other) == Vec3_dot(self, other)

\* Mul<f32> for Vec3 (algebra.rs:29-34), the scalar a fraction
Vec3_mul(self, scalar) ==
    [x |-> FracTimes(scalar, self.x), y |-> FracTimes(scalar, self.y),
     z |-> FracTimes(scalar, self.z)]

\* origin_vec3 + scaled_direction_vec3 (algorithms.rs:42)
Vec3_add_scaled(self, rhs) ==
    [x |-> FracAdd(FracOfInt(self.x), rhs.x), y |-> FracAdd(FracOfInt(self.y), rhs.y),
     z |-> FracAdd(FracOfInt(self.z), rhs.z)]

\* the second barycentric test as v < 0 || v > 1
RejectsV_NoSumTest(u, v) == FracLess(v, FracOfInt(0)) \/ FracLess(FracOfInt(1), v)

\* v < 0.0 || u + v > 1.0 (algorithms.rs:32)
RejectsV(u, v) == FracLess(v, FracOfInt(0)) \/ FracLess(FracOfInt(1), FracAdd(u, v))

\* moller_trumbore_intersection_exterior_algebra (algorithms.rs:6-55). det
\* is in the unit 2^-(2 shift), u and v are pure numbers, t is in the unit
\* 2^-shift, as are the position and the vector of the hit.
moller_trumbore_intersection_exterior_algebra(r, a, b, c, shift) ==
    LET origin_vec3 == r.origin
        direction_vec3 == r.direction
        edge1 == Vec3_sub(b, a)
        edge2 == Vec3_sub(c, a)
        ray_edge2_plane == Vec3_wedge(direction_vec3, edge2)
        det == Vec3_inner(edge1, Bivec3_dual(ray_edge2_plane))
        s == Vec3_sub(origin_vec3, a)
        u == Frac(Vec3_inner(s, Bivec3_dual(ray_edge2_plane)), det)
        s_edge1_plane == Vec3_wedge(s, edge1)
        v == Frac(Vec3_inner(direction_vec3, Bivec3_dual(s_edge1_plane)), det)
        t == Frac(Vec3_wedge_Bivec3(edge2, s_edge1_plane).xyz, det)
        scaled_direction_vec3 == Vec3_mul(direction_vec3, t)
        intersection == Vec3_add_scaled(origin_vec3, scaled_direction_vec3)
    IN IF /\ LessThanEpsilon(FracOfInt(0 - det), 2 * shift)
          /\ LessThanEpsilon(FracOfInt(det), 2 * shift)
       THEN None
       ELSE IF FracLess(u, FracOfInt(0)) \/ FracLess(FracOfInt(1), u) THEN None
       ELSE IF RejectsV(u, v) THEN None
       ELSE IF GreaterThanEpsilon(t, shift)
            THEN Some([hit_position |-> intersection,
                       hit_direction |-> scaled_direction_vec3])
            ELSE None

(***************************************************************************)
(* Specification of the intersection: a ray and a triangle are drawn, in   *)
(* the unit 1 or the fine unit, and intersected. The triangle stands on    *)
(* the edge from (-1,-1,0) to (0,-1,0) and the origin of the ray is one    *)
(* unit below the plane z = 0; or the triangle is (-1,-1,0), (1,-1,0),     *)
(* (0,1,0) and the ray leaves (0,0,-5) along the z or the x axis.          *)
(***************************************************************************)
TriangleA == Vec3_new(-1, -1, 0)
TriangleB == Vec3_new(0, -1, 0)

OriginInputs == {Vec3_new(x, y, -1) : x \in Coords, y \in Coords}

IntersectInputs ==
    [origin : OriginInputs, direction : Vec3Inputs, a : {TriangleA}, b : {TriangleB},
     c : Vec3Inputs, shift : {0, FineShift}]
    \cup [origin : {Vec3_new(0, 0, -5)},
          direction : {Vec3_new(0, 0, 1), Vec3_new(1, 0, 0)},
          a : {TriangleA}, b : {Vec3_new(1, -1, 0)}, c : {Vec3_new(0, 1, 0)}, shift : {0}]

InitIntersect ==
    /\ args \in IntersectInputs
    /\ root = SceneGraphNode_new
    /\ dirty = FALSE
    /\ meshes = <<>>
    /\ cached_render_instances = <<>>
    /\ hierarchy_dirty = TRUE
    /\ selected_path = None
    /\ lastOp = "new"
    /\ ret = <<>>
    /\ mesh = EmptyMesh
    /\ hem = EmptyHem
    /\ origin = "none"
    /\ ray = NoRay
    /\ wrapper = NoWrapper

MollerTrumboreIntersection ==
    /\ lastOp' = "moller_trumbore_intersection_exterior_algebra"
    /\ ret' = moller_trumbore_intersection_exterior_algebra(
                  [origin |-> args.origin, direction |-> args.direction],
                  args.a, args.b, args.c, args.shift)
    /\ UNCHANGED <<argVars, sceneVars, meshVars, rayVars, wrapperVars>>

NextIntersect == MollerTrumboreIntersection

SpecIntersect == InitIntersect /\ [][NextIntersect]_vars

(***************************************************************************)
(* Properties of the intersection. The point O + t D of the ray is the     *)
(* point A + u (B - A) + v (C - A) of the plane of the triangle: with      *)
(* e1 = B - A, e2 = C - A, s = O - A and the volume W = D ^ e2 ^ e1, Cramer's *)
(* rule gives u = BaryU / W, v = BaryV / W and t = RayT / W, which         *)
(* SolvesIntersection checks against the equation itself.                  *)
(***************************************************************************)
Edge1 == Vec3_sub(args.b, args.a)
Edge2 == Vec3_sub(args.c, args.a)
FromA == Vec3_sub(args.origin, args.a)

\* the volume D ^ (C - A) ^ (B - A)
Volume == Det3(args.direction, Edge2, Edge1)
BaryU == Det3(args.direction, Edge2, FromA)
BaryV == Det3(args.direction, FromA, Edge1)
RayT == 0 - Det3(FromA, Edge2, Edge1)

\* W s + RayT D = BaryU e1 + BaryV e2, component by component
SolvesIntersection ==
    /\ Volume * FromA.x + RayT * args.direction.x = BaryU * Edge1.x + BaryV * Edge2.x
    /\ Volume * FromA.y + RayT * args.direction.y = BaryU * Edge1.y + BaryV * Edge2.y
    /\ Volume * FromA.z + RayT * args.direction.z = BaryU * Edge1.z + BaryV * Edge2.z

\* u >= 0, v >= 0 and u + v <= 1
InsideTriangle ==
    /\ BaryU * Volume >= 0
    /\ BaryV * Volume >= 0
    /\ (BaryU + BaryV) * Volume <= Volume * Volume

\* the hit at the ray parameter RayT / Volume
HitAtT ==
    LET t == Frac(RayT, Volume)
    IN [hit_position |->
            [x |-> Frac(args.origin.x * Volume + RayT * args.direction.x, Volume),
             y |-> Frac(args.origin.y * Volume + RayT * args.direction.y, Volume),
             z |-> Frac(args.origin.z * Volume + RayT * args.direction.z, Volume)],
        hit_direction |->
            [x |-> Frac(RayT * args.direction.x, Volume),
             y |-> Frac(RayT * args.direction.y, Volume),
             z |-> Frac(RayT * args.direction.z, Volume)]]

\* |volume| >= f32::EPSILON, the volume being in the unit 2^-(2 shift)
VolumeAtLeastEpsilon ==
    IF 2 * args.shift >= EpsilonExp
    THEN Abs(Volume) >= Pow2(2 * args.shift - EpsilonExp)
    ELSE Volume # 0

\* t > f32::EPSILON, t being in the unit 2^-shift (shift < EpsilonExp)
TAboveEpsilon ==
    /\ RayT * Volume > 0
    /\ \/ Abs(Volume) < Pow2(EpsilonExp - args.shift)
       \/ Abs(RayT) * Pow2(EpsilonExp - args.shift) > Abs(Volume)

====
